---------------------------- MODULE Spec2Model ----------------------------
(***************************************************************************)
(* A model of the order reconciliation pipeline of the repository:         *)
(* PriorityAPIClient (src/priority_api.py), the report generator           *)
(* ResponseHandler.validate_extraction_results (src/response_handler.py)   *)
(* and the request handler ProcessOrder.post (src/main.py).                *)
(*                                                                         *)
(* Conventions.                                                            *)
(*  - A Python str is a sequence of one-character strings, so that         *)
(*    prefixes, substrings and digit runs are computed, not assumed.       *)
(*  - A Python float holding money is an integer number of 1/10000         *)
(*    currency units (Scale): 0.01 is 100, 0.005 is 50, 0.0049 is 49.      *)
(*    Arithmetic on amounts is exact at that resolution; the binary        *)
(*    rounding of IEEE doubles lies far below it and is not modelled.      *)
(*  - Python None and an absent Optional are the empty sequence None; a    *)
(*    present Optional value v is <<v>>.                                   *)
(***************************************************************************)
EXTENDS Integers, Sequences, FiniteSets, TLC

VARIABLES
    pc,                    \* position of the step being modelled
    priority_items,        \* PORDERITEMS_SUBFORM handed to a validator
    ai_items,              \* the extracted line items handed to a validator
    ai_shipping_info,      \* the caller's shipping hint (Optional)
    item_validation,       \* result of validate_items_detail
    shipping_validation,   \* result of validate_shipping_charges
    scan_calls,            \* calls of _extract_ai_shipping_info made so far
    extraction_validation, \* result of validate_extraction_results
    customer_po,           \* the PO read from the first page
    priority_order,        \* the order Priority holds for it (Optional)
    result_data,           \* the extraction of the whole document
    priority_data,         \* what the first fetch returned (Optional)
    price_validation,      \* the dict update_order_items builds (Optional)
    matched_items,         \* the items whose dates are to be written
    update_results,        \* one result per date write and unmatched item
    success_count,         \* date writes answered 200 or 204
    order_number_update,   \* outcome of update_order_number (Optional)
    requests,              \* the HTTP requests sent to Priority, in order
    response,              \* the response of the request handler (Optional)
    priority_date_str,     \* what calculate_priority_date returned (Optional)
    original_str,          \* the str handed to a numeric normalizer
    numeric_price,         \* result of PriorityAPIClient._extract_numeric_price
    report_numeric_price,  \* result of ResponseHandler._extract_numeric_price
    decimal_number,        \* result of OrderValidator.clean_number
    runs                   \* the requests handled side by side, each with
                           \* the locals of its update_order_items

validator_vars == <<priority_items, ai_items, ai_shipping_info, item_validation,
                    shipping_validation, scan_calls, extraction_validation>>

run_vars == <<customer_po, priority_order, result_data, priority_data,
              price_validation, matched_items, update_results, success_count,
              order_number_update, requests, response, priority_date_str>>

normalizer_vars == <<original_str, numeric_price, report_numeric_price,
                     decimal_number>>

vars == <<pc, validator_vars, run_vars, normalizer_vars, runs>>

-----------------------------------------------------------------------------
(* Strings *)

None == <<>>

Digits == {"0", "1", "2", "3", "4", "5", "6", "7", "8", "9"}

DigitVal(c) ==
    CASE c = "0" -> 0 [] c = "1" -> 1 [] c = "2" -> 2 [] c = "3" -> 3
      [] c = "4" -> 4 [] c = "5" -> 5 [] c = "6" -> 6 [] c = "7" -> 7
      [] c = "8" -> 8 [] c = "9" -> 9

\* s.startswith(prefix)
StartsWith(s, prefix) ==
    /\ Len(s) >= Len(prefix)
    /\ SubSeq(s, 1, Len(prefix)) = prefix

\* needle in haystack (substring test of two str)
Contains(haystack, needle) ==
    \E i \in 1..(Len(haystack) - Len(needle) + 1) :
        SubSeq(haystack, i, i + Len(needle) - 1) = needle

\* c in s (a single character)
HasChar(s, c) == \E i \in 1..Len(s) : s[i] = c

\* s.count(c)
CountChar(s, c) == Cardinality({i \in 1..Len(s) : s[i] = c})

\* s.rfind(c), 1-based; 0 when c does not occur
RFind(s, c) ==
    IF HasChar(s, c) THEN CHOOSE i \in 1..Len(s) :
                              /\ s[i] = c
                              /\ \A j \in (i + 1)..Len(s) : s[j] # c
    ELSE 0

\* s.replace(c, '')
RemoveChar(s, c) == SelectSeq(s, LAMBDA x : x # c)

\* s.replace(c, d)
ReplaceChar(s, c, d) == [i \in 1..Len(s) |-> IF s[i] = c THEN d ELSE s[i]]

UpperCase == <<"A", "B", "C", "D", "E", "F", "G", "H", "I", "J", "K", "L", "M",
               "N", "O", "P", "Q", "R", "S", "T", "U", "V", "W", "X", "Y", "Z">>

LowerCase == <<"a", "b", "c", "d", "e", "f", "g", "h", "i", "j", "k", "l", "m",
               "n", "o", "p", "q", "r", "s", "t", "u", "v", "w", "x", "y", "z">>

\* s.lower()
Lower(s) ==
    [i \in 1..Len(s) |->
        IF \E k \in 1..26 : UpperCase[k] = s[i]
        THEN LowerCase[CHOOSE k \in 1..26 : UpperCase[k] = s[i]]
        ELSE s[i]]

\* s.strip()
RECURSIVE Strip(_)
Strip(s) ==
    IF s = <<>> THEN s
    ELSE IF Head(s) = " " THEN Strip(Tail(s))
    ELSE IF s[Len(s)] = " " THEN Strip(SubSeq(s, 1, Len(s) - 1))
    ELSE s

\* the decimal value of a run of digits
RECURSIVE DigitsValue(_)
DigitsValue(s) ==
    IF s = <<>> THEN 0
    ELSE 10 * DigitsValue(SubSeq(s, 1, Len(s) - 1)) + DigitVal(s[Len(s)])

-----------------------------------------------------------------------------
(* Amounts *)

\* amounts are counted in 1/Scale currency units
Scale == 100 * 100

Abs(x) == IF x < 0 THEN -x ELSE x

\* float(cleaned) for a str of digits and '.', as <<ok, value>>: Python
\* raises ValueError unless there is at most one '.' and at least one digit.
\* Fraction digits after the fourth are below the model's resolution.
ParseFloat(cleaned) ==
    LET dot  == RFind(cleaned, ".")
        ip   == IF dot = 0 THEN cleaned ELSE SubSeq(cleaned, 1, dot - 1)
        fp   == IF dot = 0 THEN <<>> ELSE SubSeq(cleaned, dot + 1, Len(cleaned))
        fp4  == SubSeq(fp \o <<"0", "0", "0", "0">>, 1, 4)
    IN  IF CountChar(cleaned, ".") > 1 \/ Len(ip) + Len(fp) = 0
        THEN <<FALSE, 0>>
        ELSE <<TRUE, DigitsValue(ip) * Scale + DigitsValue(fp4)>>


-----------------------------------------------------------------------------
(* Numeric normalizers *)

\* re.sub(r'[^\d\.,]', '', s)
CleanPrice(s) == SelectSeq(s, LAMBDA c : c \in Digits \cup {".", ","})

\* the number of characters after the only separator c of cleaned
DigitsAfter(cleaned, c) == Len(cleaned) - RFind(cleaned, c)

\* float(cleaned) with the ValueError not caught: -1 stands for the exception
FloatUncaught(cleaned) ==
    IF ParseFloat(cleaned)[1] \/ cleaned = <<>> THEN ParseFloat(cleaned)[2] ELSE -1

\* "float(cleaned) if cleaned else 0.0", ValueError caught: 0.0
FloatOrZero(cleaned) == ParseFloat(cleaned)[2]

\* the separator rules with the comma as the decimal separator wherever
\* both separators occur
PriceSeparatorsCommaDecimal(cleaned) ==
    IF HasChar(cleaned, ",") /\ HasChar(cleaned, ".")
    THEN ReplaceChar(RemoveChar(cleaned, "."), ",", ".")
    ELSE IF HasChar(cleaned, ",")
    THEN ReplaceChar(cleaned, ",", ".")
    ELSE IF HasChar(cleaned, ".")
    THEN IF CountChar(cleaned, ".") = 1 /\ DigitsAfter(cleaned, ".") <= 2
         THEN cleaned
         ELSE RemoveChar(cleaned, ".")
    ELSE cleaned

\* PriorityAPIClient._extract_numeric_price: the str after the separator rules
PriceSeparators(cleaned) ==
    IF HasChar(cleaned, ",") /\ HasChar(cleaned, ".")
    THEN IF RFind(cleaned, ",") > RFind(cleaned, ".")
         THEN ReplaceChar(RemoveChar(cleaned, "."), ",", ".")
         ELSE RemoveChar(cleaned, ",")
    ELSE IF HasChar(cleaned, ",")
    THEN ReplaceChar(cleaned, ",", ".")
    ELSE IF HasChar(cleaned, ".")
    THEN IF CountChar(cleaned, ".") = 1 /\ DigitsAfter(cleaned, ".") <= 2
         THEN cleaned
         ELSE RemoveChar(cleaned, ".")
    ELSE cleaned

\* PriorityAPIClient._extract_numeric_price
ExtractNumericPrice(price_str) ==
    IF price_str = <<>> THEN 0
    ELSE FloatOrZero(PriceSeparators(CleanPrice(price_str)))

\* the index of the first digit of s; 0 when s has none
FirstDigit(s) ==
    IF \E i \in 1..Len(s) : s[i] \in Digits
    THEN CHOOSE i \in 1..Len(s) :
             /\ s[i] \in Digits
             /\ \A j \in 1..(i - 1) : s[j] \notin Digits
    ELSE 0

\* the end of the run of digits of s that starts at index i
RunEnd(s, i) ==
    CHOOSE k \in i..Len(s) :
        /\ \A j \in i..k : s[j] \in Digits
        /\ (k = Len(s) \/ s[k + 1] \notin Digits)

\* PriorityAPIClient._extract_numeric_quantity: re.findall(r'\d+', s)[0]
ExtractNumericQuantity(quantity_str) ==
    LET i == FirstDigit(quantity_str)
    IN  IF i = 0 THEN 0
        ELSE DigitsValue(SubSeq(quantity_str, i, RunEnd(quantity_str, i)))

\* ResponseHandler._extract_numeric_price: the str after the separator rules
ReportPriceSeparators(cleaned) ==
    IF HasChar(cleaned, ",") /\ HasChar(cleaned, ".")
    THEN IF RFind(cleaned, ",") > RFind(cleaned, ".")
         THEN ReplaceChar(RemoveChar(cleaned, "."), ",", ".")
         ELSE RemoveChar(cleaned, ",")
    ELSE IF HasChar(cleaned, ",")
    THEN IF CountChar(cleaned, ",") = 1 /\ DigitsAfter(cleaned, ",") <= 2
         THEN ReplaceChar(cleaned, ",", ".")
         ELSE IF CountChar(cleaned, ",") = 1 /\ DigitsAfter(cleaned, ",") = 3
         THEN IF RFind(cleaned, ",") - 1 <= 3
              THEN RemoveChar(cleaned, ",")
              ELSE ReplaceChar(cleaned, ",", ".")
         ELSE RemoveChar(cleaned, ",")
    ELSE IF HasChar(cleaned, ".")
    THEN IF CountChar(cleaned, ".") = 1 /\ DigitsAfter(cleaned, ".") <= 2
         THEN cleaned
         ELSE RemoveChar(cleaned, ".")
    ELSE cleaned

\* ResponseHandler._extract_numeric_price
ReportExtractNumericPrice(price_str) ==
    IF price_str = <<>> THEN 0
    ELSE FloatOrZero(ReportPriceSeparators(CleanPrice(price_str)))

\* ResponseHandler._extract_numeric_quantity: the first match of
\* r'(\d+(?:\.\d+)?)' as a float, in 1/Scale units
ReportExtractNumericQuantity(quantity_str) ==
    LET s == quantity_str
        i == FirstDigit(s)
        k == RunEnd(s, i)
        frac == k + 2 <= Len(s) /\ s[k + 1] = "." /\ s[k + 2] \in Digits
        e == IF frac THEN RunEnd(s, k + 2) ELSE k
    IN  IF i = 0 THEN 0
        ELSE ParseFloat(SubSeq(s, i, e))[2]

\* s.replace(sub, '')
RECURSIVE RemoveSubstring(_, _)
RemoveSubstring(s, sub) ==
    IF Len(s) < Len(sub) THEN s
    ELSE IF StartsWith(s, sub)
    THEN RemoveSubstring(SubSeq(s, Len(sub) + 1, Len(s)), sub)
    ELSE <<Head(s)>> \o RemoveSubstring(Tail(s), sub)

\* Decimal(cleaned) for a str without letters, as <<ok, value>>: Python
\* raises InvalidOperation unless cleaned is, between optional blanks, an
\* optional sign and then digits with at most one '.'
ParseDecimal(cleaned) ==
    LET t      == Strip(cleaned)
        signed == t # <<>> /\ Head(t) \in {"-", "+"}
        u      == IF signed THEN Tail(t) ELSE t
        float  == ParseFloat(u)
    IN  IF \A i \in 1..Len(u) : u[i] \in Digits \cup {"."}
        THEN <<float[1], IF signed /\ Head(t) = "-" THEN -float[2] ELSE float[2]>>
        ELSE <<FALSE, 0>>

\* OrderValidator.clean_number for a str: any exception is caught and
\* Decimal('0') returned
CleanNumber(value) ==
    LET stripped == Strip(RemoveSubstring(value, <<"U", "S", "D">>))
        european == IF HasChar(stripped, ",")
                    THEN ReplaceChar(RemoveChar(stripped, "."), ",", ".")
                    ELSE stripped
        cleaned  == IF european # <<>> /\ european[Len(european)] = "-"
                    THEN <<"-">> \o SubSeq(european, 1, Len(european) - 1)
                    ELSE european
    IN  IF value = <<>> THEN 0 ELSE ParseDecimal(cleaned)[2]

-----------------------------------------------------------------------------
(* Item matching: PriorityAPIClient.validate_items_detail *)

\* "price_difference < 0.01": the tolerance of the approval path
ApprovalTolerance == Scale \div 100

\* abs(float(a) - b) < 0.01
PriceMatch(a, b) == Abs(a - b) < ApprovalTolerance

\* partname in ai_by_product_code
InAi(ai, partname) == \E i \in 1..Len(ai) : ai[i].product_code = partname

\* ai_by_product_code[partname]: a dict comprehension keeps the last item
\* of each key
AiByProductCode(ai, partname) ==
    ai[CHOOSE i \in 1..Len(ai) :
           /\ ai[i].product_code = partname
           /\ \A j \in (i + 1)..Len(ai) : ai[j].product_code # partname]

\* a lookup that ignores the case of the product code
InPriorityIgnoreCase(pr, product_code) ==
    \E i \in 1..Len(pr) : Lower(pr[i].PARTNAME) = Lower(product_code)

\* product_code in priority_by_partname
InPriority(pr, product_code) ==
    \E i \in 1..Len(pr) : pr[i].PARTNAME = product_code

\* ai_quantity_numeric == priority_tquant
QuantityMatch(ai_quantity_numeric, priority_tquant) ==
    ai_quantity_numeric = priority_tquant

\* the item_result of one Priority item
ItemResult(priority_item, ai) ==
    IF InAi(ai, priority_item.PARTNAME)
    THEN LET ai_item == AiByProductCode(ai, priority_item.PARTNAME)
             qn == ExtractNumericQuantity(ai_item.quantity)
             pn == ExtractNumericPrice(ai_item.item_total)
             qm == QuantityMatch(qn, priority_item.TQUANT)
             pm == PriceMatch(priority_item.VATPRICE, pn)
         IN  [partname |-> priority_item.PARTNAME,
              priority_quantity |-> priority_item.TQUANT,
              priority_price |-> priority_item.VATPRICE,
              ai_quantity_raw |-> ai_item.quantity,
              ai_quantity_numeric |-> qn,
              ai_price_raw |-> ai_item.item_total,
              ai_price_numeric |-> pn,
              quantity_match |-> qm,
              price_match |-> pm,
              price_difference |-> Abs(priority_item.VATPRICE - pn),
              validation_passed |-> qm /\ pm]
    ELSE [partname |-> priority_item.PARTNAME,
          priority_quantity |-> priority_item.TQUANT,
          priority_price |-> priority_item.VATPRICE,
          ai_quantity_raw |-> None,
          ai_quantity_numeric |-> None,
          ai_price_raw |-> None,
          ai_price_numeric |-> None,
          quantity_match |-> FALSE,
          price_match |-> FALSE,
          validation_passed |-> FALSE]

\* [f(x) for x in s]
RECURSIVE MapSeq(_, _)
MapSeq(f(_), s) ==
    IF s = <<>> THEN <<>> ELSE <<f(Head(s))>> \o MapSeq(f, Tail(s))

\* all_items_valid without the loop over the extracted items
AllItemsValidPriorityOnly(pr, ai, details) ==
    \A i \in 1..Len(pr) :
        /\ InAi(ai, pr[i].PARTNAME)
        /\ details[i].quantity_match
        /\ details[i].price_match
        /\ details[i].validation_passed

\* what the loops of validate_items_detail leave in all_items_valid
AllItemsValid(pr, ai, details) ==
    /\ \A i \in 1..Len(pr) :
          /\ InAi(ai, pr[i].PARTNAME)
          /\ details[i].quantity_match
          /\ details[i].price_match
          /\ details[i].validation_passed
    /\ \A i \in 1..Len(ai) : InPriority(pr, ai[i].product_code)

\* a count of the distinct codes of each side
ItemCountMatchDistinct(pr, ai) ==
    Cardinality({pr[i].PARTNAME : i \in 1..Len(pr)})
        = Cardinality({ai[i].product_code : i \in 1..Len(ai)})

\* len(priority_items) == len(ai_items)
ItemCountMatch(pr, ai) == Len(pr) = Len(ai)

ValidateItemsDetail(pr, ai) ==
    LET details == [i \in 1..Len(pr) |-> ItemResult(pr[i], ai)]
        found(p) == InAi(ai, p.PARTNAME)
        qbad(i) == found(pr[i]) /\ ~details[i].quantity_match
        pbad(i) == found(pr[i]) /\ ~details[i].price_match
        idx == [i \in 1..Len(pr) |-> i]
        qentry(i) == [partname |-> details[i].partname,
                      priority_quantity |-> details[i].priority_quantity,
                      ai_quantity |-> details[i].ai_quantity_raw,
                      ai_quantity_numeric |-> details[i].ai_quantity_numeric]
        pentry(i) == [partname |-> details[i].partname,
                      priority_price |-> details[i].priority_price,
                      ai_price |-> details[i].ai_price_raw,
                      ai_price_numeric |-> details[i].ai_price_numeric,
                      difference |-> details[i].price_difference]
        partname(p) == p.PARTNAME
        code(a) == a.product_code
    IN  [all_items_valid |-> AllItemsValid(pr, ai, details),
         item_count_match |-> ItemCountMatch(pr, ai),
         priority_item_count |-> Len(pr),
         ai_item_count |-> Len(ai),
         item_details |-> details,
         mismatches |->
            [quantity |-> MapSeq(qentry, SelectSeq(idx, qbad)),
             price |-> MapSeq(pentry, SelectSeq(idx, pbad)),
             missing_in_ai |->
                MapSeq(partname, SelectSeq(pr, LAMBDA p : ~found(p))),
             missing_in_priority |->
                MapSeq(code, SelectSeq(ai,
                    LAMBDA a : ~InPriority(pr, a.product_code)))]]

-----------------------------------------------------------------------------
(* Shipping reconciliation: PriorityAPIClient.validate_shipping_charges *)

\* the "SH" of partname.startswith('SH')
ShippingPrefix == <<"S", "H">>

\* partname.startswith('SH')
IsShippingItem(item) == StartsWith(item.PARTNAME, ShippingPrefix)

\* shipping_keywords of _extract_ai_shipping_info, in its order
ShippingKeywords ==
    <<
        <<"s", "h", "i", "p", "p", "i", "n", "g", " ", "&", " ", "h", "a", "n", "d", "l", "i", "n", "g">>,
        <<"e", "x", "p", "e", "d", "i", "t", "e", "d", " ", "h", "a", "n", "d", "l", "i", "n", "g">>,
        <<"s", "h", "i", "p", "p", "i", "n", "g">>,
        <<"h", "a", "n", "d", "l", "i", "n", "g">>,
        <<"f", "r", "e", "i", "g", "h", "t">>,
        <<"d", "e", "l", "i", "v", "e", "r", "y">>>>

\* item_text: the fields of possible_fields the item has, each after a
\* blank, lowered and stripped
ItemText(item) ==
    Strip(Lower(<<" ">> \o item.product_code \o <<" ">> \o item.description))

\* the first keyword of shipping_keywords that item_text contains; 0: none
FoundKeyword(item_text) ==
    IF \E k \in 1..Len(ShippingKeywords) :
           Contains(item_text, ShippingKeywords[k])
    THEN CHOOSE k \in 1..Len(ShippingKeywords) :
             /\ Contains(item_text, ShippingKeywords[k])
             /\ \A j \in 1..(k - 1) : ~Contains(item_text, ShippingKeywords[j])
    ELSE 0

\* a scan that keeps the last item that holds a keyword
ExtractAiShippingInfoLast(ai) ==
    IF \E i \in 1..Len(ai) : FoundKeyword(ItemText(ai[i])) # 0
    THEN LET i == CHOOSE i \in 1..Len(ai) :
                      /\ FoundKeyword(ItemText(ai[i])) # 0
                      /\ \A j \in (i + 1)..Len(ai) :
                            FoundKeyword(ItemText(ai[j])) = 0
         IN  <<[found_keyword |-> ShippingKeywords[FoundKeyword(ItemText(ai[i]))],
                raw_text |-> ItemText(ai[i]),
                price_raw |-> ai[i].item_total,
                price_numeric |-> ExtractNumericPrice(ai[i].item_total),
                ai_item |-> ai[i]]>>
    ELSE None

\* PriorityAPIClient._extract_ai_shipping_info
ExtractAiShippingInfo(ai) ==
    IF \E i \in 1..Len(ai) : FoundKeyword(ItemText(ai[i])) # 0
    THEN LET i == CHOOSE i \in 1..Len(ai) :
                      /\ FoundKeyword(ItemText(ai[i])) # 0
                      /\ \A j \in 1..(i - 1) : FoundKeyword(ItemText(ai[j])) = 0
         IN  <<[found_keyword |-> ShippingKeywords[FoundKeyword(ItemText(ai[i]))],
                raw_text |-> ItemText(ai[i]),
                price_raw |-> ai[i].item_total,
                price_numeric |-> ExtractNumericPrice(ai[i].item_total),
                ai_item |-> ai[i]]>>
    ELSE None

\* whether "ai_shipping_info or self._extract_ai_shipping_info(ai_items)"
\* evaluates its right operand
ScansItems(hint) == hint = None

\* self._extract_ai_shipping_info(ai_items) or ai_shipping_info
AiShippingScanFirst(hint, ai) ==
    IF ExtractAiShippingInfo(ai) # None THEN ExtractAiShippingInfo(ai) ELSE hint

\* ai_shipping_info or self._extract_ai_shipping_info(ai_items)
AiShippingExtracted(hint, ai) ==
    IF ScansItems(hint) THEN ExtractAiShippingInfo(ai) ELSE hint

\* the price of the first shipping item only
SumPricesFirstOnly(items) == IF items = <<>> THEN 0 ELSE Head(items).price

\* total += float(vatprice) over a list of shipping items
RECURSIVE SumPrices(_)
SumPrices(items) ==
    IF items = <<>> THEN 0 ELSE Head(items).price + SumPrices(Tail(items))

\* abs(total_priority_shipping - ai_shipping_price) < 0.01
ShippingMatch(total_priority_shipping, ai_shipping_price) ==
    Abs(total_priority_shipping - ai_shipping_price) < ApprovalTolerance

ValidateShippingCharges(pr, ai, hint) ==
    LET entry(p) == [partname |-> p.PARTNAME, price |-> p.VATPRICE]
        priority_shipping_items == MapSeq(entry, SelectSeq(pr, IsShippingItem))
        total_priority_shipping == SumPrices(priority_shipping_items)
        ai_shipping_extracted == AiShippingExtracted(hint, ai)
        ai_shipping_price ==
            IF ai_shipping_extracted # None
            THEN ai_shipping_extracted[1].price_numeric ELSE 0
        has_priority_shipping == Len(priority_shipping_items) > 0
        has_ai_shipping == ai_shipping_extracted # None
        base == [priority_shipping_items |-> priority_shipping_items,
                 priority_shipping_total |-> total_priority_shipping,
                 ai_shipping_info |-> ai_shipping_extracted]
        shipping_match == ShippingMatch(total_priority_shipping, ai_shipping_price)
    IN  IF has_priority_shipping /\ has_ai_shipping
        THEN base @@ [validation_case |-> "both_exist_compare_prices",
                      shipping_match |-> shipping_match,
                      price_difference |->
                          Abs(total_priority_shipping - ai_shipping_price),
                      shipping_validation_passed |-> shipping_match]
        ELSE IF has_priority_shipping /\ ~has_ai_shipping
        THEN base @@ [validation_case |-> "priority_has_ai_missing",
                      shipping_match |-> FALSE,
                      price_difference |-> 0,
                      shipping_validation_passed |-> FALSE]
        ELSE IF ~has_priority_shipping /\ has_ai_shipping
        THEN base @@ [validation_case |-> "ai_has_priority_missing",
                      shipping_match |-> FALSE,
                      price_difference |-> 0,
                      shipping_validation_passed |-> FALSE]
        ELSE base @@ [validation_case |-> "neither_has_shipping",
                      shipping_match |-> TRUE,
                      price_difference |-> 0,
                      shipping_validation_passed |-> TRUE]

-----------------------------------------------------------------------------
(* The report: ResponseHandler.validate_extraction_results *)

\* "price_difference >= 0.005": the tolerance of the report
ReportTolerance == Scale \div 200

\* a report that flags with the tolerance of the approval
ReportPriceMismatchCent(extracted_total, priority_total) ==
    Abs(extracted_total - priority_total) >= ApprovalTolerance

\* price_difference >= 0.005
ReportPriceMismatch(extracted_total, priority_total) ==
    Abs(extracted_total - priority_total) >= ReportTolerance

\* the indices of the items that hold the keys of {key(x): x for x in s}, in
\* the dict's order: a key stands where it first occurs
FirstOccurrences(keys) ==
    SelectSeq([i \in 1..Len(keys) |-> i],
              LAMBDA i : \A j \in 1..(i - 1) : keys[j] # keys[i])

\* the index of the item a dict comprehension keeps for keys[i]: the last
LastOccurrence(keys, i) ==
    CHOOSE k \in i..Len(keys) :
        /\ keys[k] = keys[i]
        /\ \A j \in (k + 1)..Len(keys) : keys[j] # keys[i]

ValidateExtractionResults(extracted_items, pr) ==
    LET pkeys == [i \in 1..Len(pr) |-> pr[i].PARTNAME]
        \* extracted_partnames: only the items with a product_code
        coded == SelectSeq(extracted_items, LAMBDA a : a.product_code # <<>>)
        order == FirstOccurrences(pkeys)
        pitem(i) == pr[LastOccurrence(pkeys, i)]
        present(i) == InAi(coded, pkeys[i])
        eitem(i) == AiByProductCode(coded, pkeys[i])
        eqty(i) == ReportExtractNumericQuantity(eitem(i).quantity)
        etotal(i) == ReportExtractNumericPrice(eitem(i).item_total)
        qbad(i) == present(i) /\ eqty(i) # pitem(i).TQUANT * Scale
        pbad(i) == present(i)
                   /\ ReportPriceMismatch(etotal(i), pitem(i).VATPRICE)
        name(i) == pkeys[i]
        qentry(i) == [partname |-> pkeys[i],
                      priority_quantity |-> pitem(i).TQUANT,
                      extracted_quantity |-> eitem(i).quantity,
                      extracted_numeric |-> eqty(i)]
        pentry(i) == [partname |-> pkeys[i],
                      priority_total |-> pitem(i).VATPRICE,
                      extracted_total |-> eitem(i).item_total,
                      extracted_numeric |-> etotal(i),
                      difference |-> Abs(etotal(i) - pitem(i).VATPRICE)]
        missing_partnames == MapSeq(name, SelectSeq(order, LAMBDA i : ~present(i)))
        quantity_mismatches == MapSeq(qentry, SelectSeq(order, qbad))
        price_mismatches == MapSeq(pentry, SelectSeq(order, pbad))
        length_match == Len(extracted_items) = Len(pr)
    IN  [length_match |-> length_match,
         expected_count |-> Len(pr),
         extracted_count |-> Len(extracted_items),
         missing_partnames |-> missing_partnames,
         quantity_mismatches |-> quantity_mismatches,
         price_mismatches |-> price_mismatches,
         validation_summary |->
            [missing_count |-> Len(missing_partnames),
             quantity_mismatch_count |-> Len(quantity_mismatches),
             price_mismatch_count |-> Len(price_mismatches),
             is_valid |-> /\ Len(missing_partnames) = 0
                          /\ Len(quantity_mismatches) = 0
                          /\ Len(price_mismatches) = 0
                          /\ length_match]]

-----------------------------------------------------------------------------
(* Delivery dates: PriorityAPIClient.calculate_priority_date and            *)
(* convert_date_format. A date is (year, month, day); its ordinal is        *)
(* datetime.toordinal().                                                    *)

\* s.split(c) of a str
RECURSIVE Split(_, _)
Split(s, c) ==
    IF ~HasChar(s, c) THEN <<s>>
    ELSE LET i == CHOOSE i \in 1..Len(s) :
                      s[i] = c /\ \A j \in 1..(i - 1) : s[j] # c
         IN  <<SubSeq(s, 1, i - 1)>> \o Split(SubSeq(s, i + 1, Len(s)), c)

AllDigits(s) == s # <<>> /\ \A i \in 1..Len(s) : s[i] \in Digits

IsLeap(y) == (y % 4 = 0 /\ y % 100 # 0) \/ y % 400 = 0

DaysInMonth(y, m) ==
    IF m = 2 THEN (IF IsLeap(y) THEN 29 ELSE 28)
    ELSE IF m \in {4, 6, 9, 11} THEN 30 ELSE 31

\* datetime(y, m, d) does not raise ValueError
ValidDate(y, m, d) ==
    /\ y \in 1..9999
    /\ m \in 1..12
    /\ d \in 1..DaysInMonth(y, m)

DaysBeforeYear(y) ==
    (y - 1) * 365 + (y - 1) \div 4 - (y - 1) \div 100 + (y - 1) \div 400

RECURSIVE DaysBeforeMonth(_, _)
DaysBeforeMonth(y, m) ==
    IF m = 1 THEN 0 ELSE DaysBeforeMonth(y, m - 1) + DaysInMonth(y, m - 1)

\* date.toordinal()
Ordinal(date) ==
    DaysBeforeYear(date[1]) + DaysBeforeMonth(date[1], date[2]) + date[3]

\* date.fromordinal(n), for an n within a year of year y
FromOrdinal(n, y) ==
    LET yy == CHOOSE c \in {y - 1, y, y + 1} :
                  DaysBeforeYear(c) < n /\ n <= DaysBeforeYear(c + 1)
        mm == CHOOSE c \in 1..12 :
                  /\ DaysBeforeMonth(yy, c) < n - DaysBeforeYear(yy)
                  /\ n - DaysBeforeYear(yy)
                         <= DaysBeforeMonth(yy, c) + DaysInMonth(yy, c)
    IN  <<yy, mm, n - DaysBeforeYear(yy) - DaysBeforeMonth(yy, mm)>>

\* date.weekday(): Monday is 0, Sunday is 6
Weekday(n) == (n + 6) % 7

DigitChars == <<"0", "1", "2", "3", "4", "5", "6", "7", "8", "9">>

\* '%02d' % n
TwoDigits(n) ==
    <<DigitChars[((n \div 10) % 10) + 1], DigitChars[(n % 10) + 1]>>

\* str(n) of an int n >= 0
RECURSIVE NatDigits(_)
NatDigits(n) ==
    IF n < 10 THEN <<DigitChars[n + 1]>>
    ELSE NatDigits(n \div 10) \o <<DigitChars[(n % 10) + 1]>>

\* date.strftime("%d/%m/%Y"); the C library's %Y does not pad the year
FormatDate(date) ==
    TwoDigits(date[3]) \o <<"/">> \o TwoDigits(date[2]) \o <<"/">>
        \o NatDigits(date[1])

RECURSIVE StripZeros(_)
StripZeros(s) ==
    IF Len(s) > 1 /\ s[1] = "0" THEN StripZeros(Tail(s)) ELSE s

\* int(s) as <<ok, value>> for the values a date can hold: surrounding
\* whitespace and a sign are accepted; every value above 9999 reads 10000
\* and every negative one -1, which datetime rejects all the same
ParseInt(s) ==
    LET t == Strip(s)
        signed == t # <<>> /\ t[1] \in {"+", "-"}
        body == IF signed THEN Tail(t) ELSE t
        digits == StripZeros(body)
        magnitude == IF Len(digits) > 4 THEN 10000 ELSE DigitsValue(digits)
    IN  IF ~AllDigits(body) THEN <<FALSE, 0>>
        ELSE IF signed /\ t[1] = "-" /\ magnitude > 0 THEN <<TRUE, -1>>
        ELSE <<TRUE, magnitude>>

\* datetime.strptime(s, "%d/%m/%Y") as <<ok, date>>: %d is one or two
\* digits or a space and a digit, %m one or two digits, %Y four digits
ParseSlashDate(s) ==
    LET parts == Split(s, "/")
        day == IF Len(parts[1]) = 2 /\ parts[1][1] = " "
               THEN Tail(parts[1]) ELSE parts[1]
        ok == /\ Len(parts) = 3
              /\ AllDigits(day) /\ Len(day) <= 2
              /\ AllDigits(parts[2]) /\ Len(parts[2]) <= 2
              /\ AllDigits(parts[3]) /\ Len(parts[3]) = 4
              /\ ValidDate(DigitsValue(parts[3]), DigitsValue(parts[2]),
                           DigitsValue(day))
    IN  IF ok
        THEN <<TRUE, <<DigitsValue(parts[3]), DigitsValue(parts[2]),
                       DigitsValue(day)>>>>
        ELSE <<FALSE, <<0, 0, 0>>>>

\* the parse of calculate_priority_date as <<ok, date>>: DD.MM.YYYY through
\* datetime(int, int, int) when the str has a '.', strptime otherwise
ParseDeliveryDate(s) ==
    IF HasChar(s, ".")
    THEN LET parts == Split(s, ".")
             ok == /\ Len(parts) = 3
                   /\ \A k \in 1..3 : ParseInt(parts[k])[1]
                   /\ ValidDate(ParseInt(parts[3])[2], ParseInt(parts[2])[2],
                                ParseInt(parts[1])[2])
         IN  IF ok
             THEN <<TRUE, <<ParseInt(parts[3])[2], ParseInt(parts[2])[2],
                            ParseInt(parts[1])[2]>>>>
             ELSE <<FALSE, <<0, 0, 0>>>>
    ELSE ParseSlashDate(s)

\* a test that takes either marker for the special address
IsSpecialAddressEither(delivery_address) ==
    \/ Contains(delivery_address, <<"1", "2", " ", "B", "e", "t">>)
    \/ Contains(delivery_address, <<"S", "t", ".">>)

\* "12 Bet" in delivery_address and "St." in delivery_address
IsSpecialAddress(delivery_address) ==
    /\ Contains(delivery_address, <<"1", "2", " ", "B", "e", "t">>)
    /\ Contains(delivery_address, <<"S", "t", ".">>)

\* a choice that leaves a Saturday where it is
PriorityOrdinalNoShift(original, delivery_address) ==
    LET calculated == original - 6
    IN  IF IsSpecialAddress(delivery_address)
        THEN calculated + (3 - Weekday(calculated))
        ELSE calculated

\* the ordinal calculate_priority_date picks for an original ordinal
PriorityOrdinal(original, delivery_address) ==
    LET calculated == original - 6
    IN  IF IsSpecialAddress(delivery_address)
        THEN calculated + (3 - Weekday(calculated))
        ELSE IF Weekday(calculated) = 5 THEN calculated - 1
        ELSE calculated

\* the last ordinal a datetime holds: 31 December 9999
MaxOrdinal == DaysBeforeYear(9999) + 365

\* PriorityAPIClient.calculate_priority_date. timedelta arithmetic that
\* leaves the range of datetime raises OverflowError, which the except
\* catches like the ValueError of the parse.
CalculatePriorityDate(delivery_date_str, delivery_address) ==
    LET parsed == ParseDeliveryDate(delivery_date_str)
        original == Ordinal(parsed[2])
        priority_date == PriorityOrdinal(original, delivery_address)
        fallback == IF HasChar(delivery_date_str, ".")
                    THEN ReplaceChar(delivery_date_str, ".", "/")
                    ELSE delivery_date_str
    IN  IF /\ parsed[1]
           /\ original - 6 >= 1
           /\ priority_date \in 1..MaxOrdinal
        THEN FormatDate(FromOrdinal(priority_date, parsed[2][1]))
        ELSE fallback

\* PriorityAPIClient.convert_date_format as <<ok, str>>; not ok: ValueError
ConvertDateFormat(date_str) ==
    LET parsed == ParseSlashDate(date_str)
        d == parsed[2]
    IN  IF parsed[1]
        THEN <<TRUE, NatDigits(d[1]) \o <<"-">>
                     \o TwoDigits(d[2]) \o <<"-">> \o TwoDigits(d[3])
                     \o <<"T", "0", "0", ":", "0", "0", ":", "0", "0", "+",
                          "0", "3", ":", "0", "0">>>>
        ELSE <<FALSE, <<>>>>

-----------------------------------------------------------------------------
(* Fetching the order: PriorityAPIClient.get_order_data *)

\* a format check that does not look at the ten characters after "PO"
ValidPoFormatAnyTen(order_po) ==
    /\ Len(order_po) = 12
    /\ StartsWith(order_po, <<"P", "O">>)

\* len(order_po) != 12 or not order_po.startswith('PO')
\* or not order_po[2:].isdigit(), negated
ValidPoFormat(order_po) ==
    /\ Len(order_po) = 12
    /\ StartsWith(order_po, <<"P", "O">>)
    /\ AllDigits(SubSeq(order_po, 3, Len(order_po)))

\* price_match = price_difference < 0.01 of the order totals
TotalPriceMatch(priority_totprice, ai_price_numeric) ==
    Abs(priority_totprice - ai_price_numeric) < ApprovalTolerance

\* ai_total_price is not None
ValidationAttempted(ai_total_price) == ai_total_price # None

\* the price_validation dict get_order_data returns; ai_total_price is the
\* Optional str handed to it. The validation_message is a log text.
PriceValidation(priority_totprice, ai_total_price) ==
    LET base == [priority_totprice |-> priority_totprice,
                 ai_total_price_raw |-> ai_total_price,
                 ai_total_price |-> None,
                 validation_attempted |-> ValidationAttempted(ai_total_price),
                 price_match |-> FALSE,
                 price_difference |-> 0]
        ai_price_numeric == ExtractNumericPrice(ai_total_price[1])
    IN  IF ValidationAttempted(ai_total_price)
        THEN [base EXCEPT
                !.ai_total_price = <<ai_price_numeric>>,
                !.price_match =
                    TotalPriceMatch(priority_totprice, ai_price_numeric),
                !.price_difference = Abs(priority_totprice - ai_price_numeric)]
        ELSE base

\* a fetch that filters nothing
UnfilteredItems(order_items) == order_items

\* the REQDATE of a line before the run
InitialReqdate ==
    <<"2", "0", "2", "5", "-", "0", "1", "-", "1", "0", "T", "0", "0", ":",
      "0", "0", ":", "0", "0", "+", "0", "3", ":", "0", "0">>

\* a filter that also leaves out the lines that already have a date
FilteredItemsUndated(order_items) ==
    SelectSeq(order_items, LAMBDA item : /\ ~IsShippingItem(item)
                                         /\ item.REQDATE = InitialReqdate)

\* filtered_items: the items whose PARTNAME does not start with "SH"
FilteredItems(order_items) ==
    SelectSeq(order_items, LAMBDA item : ~IsShippingItem(item))

\* the answers of Priority to a GET and to a PATCH: "error" is a
\* requests.exceptions.RequestException, "rejected" a status other than 200
\* and 204
GetOutcomes == {"ok", "error"}
PatchOutcomes == {"ok", "rejected", "error"}

GetRequest ==
    [method |-> "GET", resource |-> "PORDERS", kline |-> 0, payload |-> <<>>]

\* a PATCH that carries a status whatever it writes
PatchRequestWithStatus(resource, kline, payload) ==
    [method |-> "PATCH", resource |-> resource, kline |-> kline,
     payload |-> payload @@ [STATDES |-> "In Validation"]]

\* requests.patch(url, headers=patch_headers, data=json.dumps(payload))
PatchRequest(resource, kline, payload) ==
    [method |-> "PATCH", resource |-> resource, kline |-> kline,
     payload |-> payload]

\* get_order_data(order_po, ai_total_price) when Priority holds order and
\* answers with outcome: data is the order with PORDERITEMS_SUBFORM filtered
\* and the unfiltered items kept as _original_items
GetOrderData(order_po, ai_total_price, outcome, order) ==
    IF ~ValidPoFormat(order_po) \/ outcome = "error" \/ order = None
    THEN [success |-> FALSE, data |-> None, price_validation |-> None]
    ELSE [success |-> TRUE,
          data |-> [order[1] EXCEPT !.PORDERITEMS_SUBFORM = FilteredItems(@)]
                   @@ [original_items |-> order[1].PORDERITEMS_SUBFORM],
          price_validation |-> PriceValidation(order[1].TOTPRICE, ai_total_price)]

\* the requests get_order_data sends: none for a malformed PO
GetOrderDataRequests(order_po) ==
    IF ValidPoFormat(order_po) THEN <<GetRequest>> ELSE <<>>

-----------------------------------------------------------------------------
(* The final status: PriorityAPIClient.update_final_status *)

\* "Supplier Approval" and "Sent to Supplier", the two values of new_status
StatusApproved == "אישור ספק"
StatusSentToSupplier == "נשלח לספק"

\* an approval that does not look at the item count
ApprovedIgnoringCount(price_match, all_items_valid, item_count_match, shipping_valid, no_missing_items) ==
    price_match /\ all_items_valid /\ shipping_valid /\ no_missing_items

\* the condition of "Only approve if EVERYTHING matches perfectly"
ApprovedCondition(price_match, all_items_valid, item_count_match, shipping_valid, no_missing_items) ==
    /\ price_match /\ all_items_valid /\ item_count_match
    /\ shipping_valid /\ no_missing_items

IssuePrice ==
    <<"t", "o", "t", "a", "l", " ", "p", "r", "i", "c", "e", " ", "m", "i",
      "s", "m", "a", "t", "c", "h">>
IssueItems ==
    <<"i", "t", "e", "m", " ", "p", "r", "i", "c", "e", "/", "q", "u", "a",
      "n", "t", "i", "t", "y", " ", "d", "i", "s", "c", "r", "e", "p", "a",
      "n", "c", "i", "e", "s">>
IssueCount ==
    <<"i", "t", "e", "m", " ", "c", "o", "u", "n", "t", " ", "m", "i", "s",
      "m", "a", "t", "c", "h">>
IssueMissing ==
    <<" ", "i", "t", "e", "m", "s", " ", "m", "i", "s", "s", "i", "n", "g",
      " ", "i", "n", " ", "A", "I", " ", "e", "x", "t", "r", "a", "c", "t",
      "i", "o", "n">>
IssueShipping ==
    <<"s", "h", "i", "p", "p", "i", "n", "g", " ", "v", "a", "l", "i", "d",
      "a", "t", "i", "o", "n", " ", "f", "a", "i", "l", "e", "d">>
ReasonFailed ==
    <<"V", "a", "l", "i", "d", "a", "t", "i", "o", "n", " ", "f", "a", "i",
      "l", "e", "d", ":", " ">>
ReasonApproved ==
    <<"P", "e", "r", "f", "e", "c", "t", " ", "m", "a", "t", "c", "h", ":",
      " ", "T", "o", "t", "a", "l", " ", "p", "r", "i", "c", "e", ",", " ",
      "a", "l", "l", " ", "i", "t", "e", "m", " ", "d", "e", "t", "a", "i",
      "l", "s", " ", "(", "p", "r", "i", "c", "e", " ", "&", " ", "q", "u",
      "a", "n", "t", "i", "t", "y", ")", ",", " ", "i", "t", "e", "m", " ",
      "c", "o", "u", "n", "t", ",", " ", "a", "n", "d", " ", "s", "h", "i",
      "p", "p", "i", "n", "g", " ", "a", "l", "l", " ", "v", "a", "l", "i",
      "d", "a", "t", "e", "d", " ", "s", "u", "c", "c", "e", "s", "s", "f",
      "u", "l", "l", "y">>

\* ', '.join(issues)
RECURSIVE Join(_)
Join(issues) ==
    IF issues = <<>> THEN <<>>
    ELSE IF Len(issues) = 1 THEN issues[1]
    ELSE issues[1] \o <<",", " ">> \o Join(Tail(issues))

\* the list issues, without the entry of the item count
IssuesWithoutCount(price_match, all_items_valid, item_count_match, shipping_valid, missing_count) ==
    (IF ~price_match THEN <<IssuePrice>> ELSE <<>>)
    \o (IF ~all_items_valid THEN <<IssueItems>> ELSE <<>>)
    \o (IF missing_count # 0
        THEN <<NatDigits(missing_count) \o IssueMissing>> ELSE <<>>)
    \o (IF ~shipping_valid THEN <<IssueShipping>> ELSE <<>>)

\* the list issues of the rejection
Issues(price_match, all_items_valid, item_count_match, shipping_valid, missing_count) ==
    (IF ~price_match THEN <<IssuePrice>> ELSE <<>>)
    \o (IF ~all_items_valid THEN <<IssueItems>> ELSE <<>>)
    \o (IF ~item_count_match THEN <<IssueCount>> ELSE <<>>)
    \o (IF missing_count # 0
        THEN <<NatDigits(missing_count) \o IssueMissing>> ELSE <<>>)
    \o (IF ~shipping_valid THEN <<IssueShipping>> ELSE <<>>)

\* new_status and status_reason as update_final_status determines them from
\* price_validation and the two validation results stored in it
FinalStatus(pv, iv, sv) ==
    LET price_match == pv.price_match
        all_items_valid == iv.all_items_valid
        item_count_match == iv.item_count_match
        shipping_valid == sv.shipping_validation_passed
        missing_count == Len(iv.mismatches.missing_in_ai)
        no_missing_items == missing_count = 0
    IN  IF ApprovedCondition(price_match, all_items_valid, item_count_match,
                             shipping_valid, no_missing_items)
        THEN [new_status |-> StatusApproved, status_reason |-> ReasonApproved]
        ELSE [new_status |-> StatusSentToSupplier,
              status_reason |->
                  ReasonFailed \o Join(Issues(price_match, all_items_valid,
                      item_count_match, shipping_valid, missing_count))]

-----------------------------------------------------------------------------
(* The request handler's preparation: ProcessOrder.post and                 *)
(* ClaudeOrderProcessor._extract_shipping_from_order_info                   *)

\* [A-Z0-9] and \s
PoChars == Digits \cup {UpperCase[k] : k \in 1..26}
Whitespace == {" ", "\t", "\n"}

\* the index of the first character of s from i on that is not in S;
\* Len(s) + 1 when there is none
RECURSIVE SkipChars(_, _, _)
SkipChars(s, i, S) ==
    IF i <= Len(s) /\ s[i] \in S THEN SkipChars(s, i + 1, S) ELSE i

CustomerPoLabel == <<"C", "u", "s", "t", "o", "m", "e", "r", " ", "P", "O", ":">>

\* the starts of the matches of r'Customer PO:\s*([A-Z0-9]+)' in s
CustomerPoMatches(s) ==
    {i \in 1..(Len(s) - Len(CustomerPoLabel) + 1) :
        /\ SubSeq(s, i, i + Len(CustomerPoLabel) - 1) = CustomerPoLabel
        /\ LET j == SkipChars(s, i + Len(CustomerPoLabel), Whitespace)
           IN  j <= Len(s) /\ s[j] \in PoChars}

\* the starts of the matches of r'PO\d{10}' in s
PoPatternMatches(s) ==
    {i \in 1..(Len(s) - 11) :
        /\ s[i] = "P" /\ s[i + 1] = "O"
        /\ \A j \in (i + 2)..(i + 11) : s[j] \in Digits}

\* min(S)
Min(S) == CHOOSE i \in S : \A j \in S : i <= j

\* the fallback of _extract_po_from_response
PoPatternSearch(response_text) ==
    IF PoPatternMatches(response_text) # {}
    THEN SubSeq(response_text, Min(PoPatternMatches(response_text)),
                Min(PoPatternMatches(response_text)) + 11)
    ELSE <<>>

\* ClaudeOrderProcessor._extract_po_from_response
ExtractPoFromResponse(response_text) ==
    IF CustomerPoMatches(response_text) = {}
    THEN PoPatternSearch(response_text)
    ELSE LET i == Min(CustomerPoMatches(response_text))
             j == SkipChars(response_text, i + Len(CustomerPoLabel), Whitespace)
             po == SubSeq(response_text, j,
                          SkipChars(response_text, j, PoChars) - 1)
         IN  IF po # <<"N", "O", "T", "_", "F", "O", "U", "N", "D">> /\ Len(po) = 12 /\ StartsWith(po, <<"P", "O">>)
             THEN po
             ELSE PoPatternSearch(response_text)

\* valid_items: product_code and delivery_date of the items that have both
ValidItems(items_data) ==
    LET entry(item) == [product_code |-> item.product_code,
                        delivery_date |-> item.delivery_date]
    IN  MapSeq(entry, SelectSeq(items_data, LAMBDA item :
            item.product_code # <<>> /\ item.delivery_date # <<>>))

\* order_info.get("total_price", "") or order_info.get("order_total", "")
\* or ""; the extraction schema has no order_total
ExtractedTotalPrice(order_info) == order_info.total_price

\* the keys of order_info whose values are searched, in the order of the
\* extraction schema; customer_po holds no lower-case letter
OrderInfoKeys == <<"delivery_address", "total_price", "shipping_cost">>

\* the keys of shipping_keywords_mapping, in its order
ShippingKeywordsMapping ==
    <<
        <<"s", "h", "i", "p", "p", "i", "n", "g", " ", "&", " ", "h", "a",
          "n", "d", "l", "i", "n", "g">>,
        <<"e", "x", "p", "e", "d", "i", "t", "e", "d", " ", "h", "a", "n",
          "d", "l", "i", "n", "g">>,
        <<"s", "h", "i", "p", "p", "i", "n", "g">>,
        <<"h", "a", "n", "d", "l", "i", "n", "g">>,
        <<"f", "r", "e", "i", "g", "h", "t">>,
        <<"d", "e", "l", "i", "v", "e", "r", "y", " ", "c", "h", "a", "r",
          "g", "e">>>>

\* float(re.sub(r'[^\d\.]', '', value)) if that is not empty else 0, as
\* <<ok, value>>; not ok: float raises ValueError
HintPrice(value) ==
    LET price_cleaned == SelectSeq(value, LAMBDA c : c \in Digits \cup {"."})
    IN  IF price_cleaned = <<>> THEN <<TRUE, 0>> ELSE ParseFloat(price_cleaned)

\* whether the first loop reads the price of order_info.shipping_cost
DirectFieldCandidate(order_info) ==
    /\ order_info.shipping_cost # <<>>
    /\ Strip(order_info.shipping_cost) # <<>>
    /\ Strip(order_info.shipping_cost) # <<"0">>

\* whether the second loop reads the price of order_info[key]
KeywordCandidate(order_info, key) ==
    \E k \in 1..Len(ShippingKeywordsMapping) :
        Contains(Lower(order_info[key]), ShippingKeywordsMapping[k])

\* the first keyword of the mapping that the value of key contains
KeywordFound(order_info, key) ==
    ShippingKeywordsMapping[
        CHOOSE k \in 1..Len(ShippingKeywordsMapping) :
            /\ Contains(Lower(order_info[key]), ShippingKeywordsMapping[k])
            /\ \A j \in 1..(k - 1) :
                  ~Contains(Lower(order_info[key]), ShippingKeywordsMapping[j])]

\* a shipping hint of the first loop
ShippingHint(raw, price_numeric) ==
    [source |-> <<"order_info", "shipping_cost">>, raw_text |-> raw,
     price_raw |-> raw, price_numeric |-> price_numeric,
     priority_mapping |-> "SH-AGILENT", extraction_type |-> "direct_field"]

\* the second loop from the k-th key on, as <<ok, Optional hint>>
RECURSIVE KeywordHint(_, _)
KeywordHint(order_info, k) ==
    IF k > Len(OrderInfoKeys) THEN <<TRUE, None>>
    ELSE LET key == OrderInfoKeys[k]
             price == HintPrice(order_info[key])
         IN  IF ~KeywordCandidate(order_info, key)
             THEN KeywordHint(order_info, k + 1)
             ELSE IF ~price[1] THEN <<FALSE, None>>
             ELSE IF price[2] > 0
             THEN <<TRUE, <<[source |-> <<"order_info", key>>,
                             found_keyword |-> KeywordFound(order_info, key),
                             raw_text |-> order_info[key],
                             price_raw |-> order_info[key],
                             price_numeric |-> price[2],
                             extraction_type |-> "keyword_match"]>>>>
             ELSE KeywordHint(order_info, k + 1)

\* _extract_shipping_from_order_info(order_info, valid_items) as
\* <<ok, Optional hint>>; not ok: a ValueError leaves the function. An item
\* of valid_items has neither item_total nor extended_price, so that the
\* third loop returns nothing.
ExtractShippingFromOrderInfo(order_info, items) ==
    LET direct == HintPrice(order_info.shipping_cost)
    IN  IF DirectFieldCandidate(order_info) /\ ~direct[1]
        THEN <<FALSE, None>>
        ELSE IF DirectFieldCandidate(order_info) /\ direct[2] > 0
        THEN <<TRUE, <<ShippingHint(order_info.shipping_cost, direct[2])>>>>
        ELSE KeywordHint(order_info, 1)

-----------------------------------------------------------------------------
(* Writing the dates: PriorityAPIClient.update_order_items *)

\* product_code in partname_to_kline
InPartnameToKline(order_items, product_code) ==
    /\ product_code # <<>>
    /\ \E i \in 1..Len(order_items) : order_items[i].PARTNAME = product_code

\* the array index of the last such line in place of its KLINE
PartnameToIndex(order_items, product_code) ==
    CHOOSE i \in 1..Len(order_items) :
        /\ order_items[i].PARTNAME = product_code
        /\ \A j \in (i + 1)..Len(order_items) :
              order_items[j].PARTNAME # product_code

\* partname_to_kline[product_code]: the KLINE of the last such line
PartnameToKline(order_items, product_code) ==
    LET i == CHOOSE i \in 1..Len(order_items) :
                 /\ order_items[i].PARTNAME = product_code
                 /\ \A j \in (i + 1)..Len(order_items) :
                       order_items[j].PARTNAME # product_code
    IN  order_items[i].KLINE

\* matched_items
MatchedItems(items_data, order_items) ==
    LET entry(item) ==
            [product_code |-> item.product_code,
             delivery_date |-> item.delivery_date,
             kline_id |-> PartnameToKline(order_items, item.product_code)]
    IN  MapSeq(entry, SelectSeq(items_data, LAMBDA item :
            /\ item.product_code # <<>>
            /\ item.delivery_date # <<>>
            /\ InPartnameToKline(order_items, item.product_code)))

\* overall_validation_pass
OverallValidationPass(price_match, all_items_valid, shipping_valid) ==
    price_match /\ all_items_valid /\ shipping_valid

\* the results appended for the items that were not matched: 'skipped'
\* without product_code or delivery_date, 'not_found' when no result so far
\* has the product_code
RECURSIVE WithUnmatched(_, _)
WithUnmatched(results, items_data) ==
    IF items_data = <<>> THEN results
    ELSE LET item == Head(items_data)
             skipped == item.product_code = <<>> \/ item.delivery_date = <<>>
             seen == \E r \in 1..Len(results) :
                        results[r].product_code = item.product_code
         IN  WithUnmatched(
                 IF skipped
                 THEN Append(results, [product_code |-> item.product_code,
                                       status |-> "skipped"])
                 ELSE IF ~seen
                 THEN Append(results, [product_code |-> item.product_code,
                                       status |-> "not_found"])
                 ELSE results,
                 Tail(items_data))

-----------------------------------------------------------------------------
(* Inputs of the validators *)

MaxPriorityItems == 2
MaxAiItems == 2

\* the sequences over S of length at most n
SeqsUpTo(S, n) == UNION {[1..k -> S] : k \in 0..n}

\* a Priority line item; KLINE is its line identifier
PriorityItem(partname, tquant, vatprice) ==
    [PARTNAME |-> partname, TQUANT |-> tquant, VATPRICE |-> vatprice,
     KLINE |-> 0, REQDATE |-> InitialReqdate]

\* PORDERITEMS_SUBFORM: line k of the order has KLINE k
WithKlines(items) == [k \in 1..Len(items) |-> [items[k] EXCEPT !.KLINE = k]]

\* an extracted line item
AiItem(product_code, description, quantity, item_total, delivery_date) ==
    [product_code |-> product_code, description |-> description,
     quantity |-> quantity, item_total |-> item_total,
     delivery_date |-> delivery_date]

PartA == <<"A", "1">>
PartB == <<"B", "2">>
PartX == <<"X", "9">>
PartSH1 == <<"S", "H", "1">>
PartSH2 == <<"S", "H", "-", "X">>
PartLowerSh == <<"s", "h", "1">>
PartLowerA == <<"a", "1">>

Widget == <<"W", "i", "d", "g", "e", "t">>
Date1 == <<"1", "0", ".", "0", "1", ".", "2", "0", "2", "5">>

\* 10.00, 12.50, 5.00, 2.50 and 7.50 currency units
Amount1000 == 10 * Scale
Amount1250 == 12 * Scale + Scale \div 2
Amount500 == 5 * Scale
Amount250 == 2 * Scale + Scale \div 2
Amount750 == 7 * Scale + Scale \div 2

MatchPriorityPool ==
    {PriorityItem(PartA, 1, Amount1000), PriorityItem(PartA, 2, Amount1000),
     PriorityItem(PartA, 1, Amount1250), PriorityItem(PartB, 1, Amount1000)}

MatchAiPool ==
    {AiItem(PartA, Widget, <<"1", " ", "E", "A">>, <<"U", "S", "D", " ", "1", "0", ".", "0", "0">>, Date1),
     AiItem(PartA, Widget, <<"2", " ", "E", "A">>, <<"1", "2", ",", "5", "0">>, Date1),
     AiItem(PartB, Widget, <<"1", " ", "E", "A">>, <<"U", "S", "D", " ", "1", "0", ".", "0", "0">>, Date1),
     AiItem(PartX, Widget, <<"1", " ", "E", "A">>, <<"U", "S", "D", " ", "1", "0", ".", "0", "0">>, Date1),
     AiItem(PartLowerA, Widget, <<"1", " ", "E", "A">>, <<"U", "S", "D", " ", "1", "0", ".", "0", "0">>, Date1)}

ShippingPriorityPool ==
    {PriorityItem(PartA, 1, Amount1000), PriorityItem(PartSH1, 1, Amount500),
     PriorityItem(PartSH2, 1, Amount250), PriorityItem(PartLowerSh, 1, Amount500)}

ShippingAiPool ==
    {AiItem(PartA, Widget, <<"1", " ", "E", "A">>, <<"U", "S", "D", " ", "1", "0", ".", "0", "0">>, Date1),
     AiItem(<<"F", "R", "T">>, <<"F", "r", "e", "i", "g", "h", "t", " ", "c", "h", "a", "r", "g", "e">>, <<"1", " ", "E", "A">>, <<"U", "S", "D", " ", "5", ".", "0", "0">>, Date1),
     AiItem(PartX, <<"S", "h", "i", "p", "p", "i", "n", "g", " ", "&", " ", "H", "a", "n", "d", "l", "i", "n", "g">>, <<"1", " ", "E", "A">>, <<"7", ",", "5", "0">>, Date1)}

ShippingHints ==
    {None} \cup
    {<<ShippingHint(<<"U", "S", "D", " ", "5", ".", "0", "0">>, v)>> :
        v \in {Amount500, Amount750, Amount500 + ApprovalTolerance - 1,
               Amount500 + ApprovalTolerance}}

\* no normalizer is being called
NormalizerIdle ==
    /\ original_str = <<>>
    /\ numeric_price = None
    /\ report_numeric_price = None
    /\ decimal_number = None

\* one request at a time
NoOtherRuns == runs = <<>>

\* no request is being handled
RunIdle ==
    /\ customer_po = <<>>
    /\ priority_order = None
    /\ result_data = None
    /\ priority_data = None
    /\ price_validation = None
    /\ matched_items = <<>>
    /\ update_results = <<>>
    /\ success_count = 0
    /\ order_number_update = None
    /\ requests = <<>>
    /\ response = None
    /\ priority_date_str = None

\* the inputs of a run: what the first page yields as customer PO, the
\* order Priority holds and what the extraction of the document yields
ValidPo ==
    <<"P", "O", "2", "4", "1", "0", "0", "0", "0", "2", "8", "5">>

\* what the model answers for the first page: the PO, no PO, a PO with
\* letters, a PO that is too short, one that is too long, a PO outside the
\* expected line, and nothing (an exception: "")
RunPoResponses ==
    {<<"C", "u", "s", "t", "o", "m", "e", "r", " ", "P", "O", ":", " ", "P", "O", "2", "4", "1", "0", "0", "0", "0", "2", "8", "5">>, <<"C", "u", "s", "t", "o", "m", "e", "r", " ", "P", "O", ":", " ", "N", "O", "T", "_", "F", "O", "U", "N", "D">>,
     <<"C", "u", "s", "t", "o", "m", "e", "r", " ", "P", "O", ":", " ", "P", "O", "2", "4", "1", "0", "0", "0", "0", "2", "A", "B">>, <<"C", "u", "s", "t", "o", "m", "e", "r", " ", "P", "O", ":", " ", "P", "O", "2", "4", "1", "0", "0", "0", "2", "8", "5">>,
     <<"C", "u", "s", "t", "o", "m", "e", "r", " ", "P", "O", ":", " ", "P", "O", "2", "4", "1", "0", "0", "0", "0", "2", "8", "5", "0">>, <<"Y", "o", "u", "r", " ", "O", "r", "d", "e", "r", ":", " ", "P", "O", "2", "4", "1", "0", "0", "0", "0", "2", "8", "5">>, <<>>}

StatusBeforeRun == "Draft"

SupplierName == <<"A", "g", "i", "l", "e", "n", "t">>
SupplierOrderNumber == <<"S", "O", "1">>

\* an order whose TOTPRICE is the sum of its lines
Order(items, supordnum) ==
    [TOTPRICE |-> SumPrices(MapSeq(LAMBDA p : [price |-> p.VATPRICE], items)),
     STATDES |-> StatusBeforeRun,
     SUPORDNUM |-> supordnum,
     SUPNAME |-> SupplierName,
     PORDERITEMS_SUBFORM |-> WithKlines(items)]

RunPriorityPool ==
    {PriorityItem(PartA, 1, Amount1000), PriorityItem(PartSH1, 1, Amount500)}

\* no order, the orders that have a SUPORDNUM, and one that has none
RunOrders ==
    {None, <<Order(<<PriorityItem(PartA, 1, Amount1000)>>, <<>>)>>} \cup
    {<<Order(items, SupplierOrderNumber)>> :
        items \in SeqsUpTo(RunPriorityPool, MaxPriorityItems)}

RunAiPool ==
    {AiItem(PartA, Widget, <<"1", " ", "E", "A">>, <<"U", "S", "D", " ", "1", "0", ".", "0", "0">>, Date1),
     AiItem(PartA, Widget, <<"1", " ", "E", "A">>, <<"1", "2", ",", "5", "0">>, Date1),
     AiItem(PartX, Widget, <<"1", " ", "E", "A">>, <<"U", "S", "D", " ", "1", "0", ".", "0", "0">>, Date1)}

Address ==
    <<"5", " ", "M", "a", "i", "n", " ", "R", "o", "a", "d">>

RunTotalPrices ==
    {<<>>,
     <<"U", "S", "D", " ", "1", "0", ".", "0", "0">>,
     <<"U", "S", "D", " ", "1", "5", ".", "0", "0">>}

RunShippingCosts == {<<>>, <<"U", "S", "D", " ", "5", ".", "0", "0">>}

RunDocuments ==
    {[order_info |-> [delivery_address |-> Address, total_price |-> total,
                      shipping_cost |-> shipping],
      items |-> items] :
        total \in RunTotalPrices, shipping \in RunShippingCosts,
        items \in SeqsUpTo(RunAiPool, MaxAiItems)}

-----------------------------------------------------------------------------
(* Specification of the item matcher alone *)

MatchPriorityInputs ==
    {WithKlines(s) : s \in SeqsUpTo(MatchPriorityPool, MaxPriorityItems)}

MatchAiInputs == SeqsUpTo(MatchAiPool, MaxAiItems)

InitMatch ==
    /\ pc = "call"
    /\ priority_items \in MatchPriorityInputs
    /\ ai_items \in MatchAiInputs
    /\ ai_shipping_info = None
    /\ item_validation = None
    /\ shipping_validation = None
    /\ scan_calls = 0
    /\ extraction_validation = None
    /\ RunIdle
    /\ NormalizerIdle
    /\ NoOtherRuns

\* item_validation_results = self.validate_items_detail(order_items, ...)
ValidateItemsDetailCall ==
    /\ pc = "call"
    /\ item_validation' = ValidateItemsDetail(priority_items, ai_items)
    /\ pc' = "return"
    /\ UNCHANGED <<priority_items, ai_items, ai_shipping_info,
                   shipping_validation, scan_calls, extraction_validation>>
    /\ UNCHANGED run_vars
    /\ UNCHANGED <<normalizer_vars, runs>>

SpecMatch == InitMatch /\ [][ValidateItemsDetailCall]_vars

\* the elements of a sequence
Range(s) == {s[i] : i \in 1..Len(s)}

\* C6: item matching never drops a product code. Every Priority item whose
\* PARTNAME no extracted item carries is listed in missing_in_ai, every
\* extracted item whose product_code no Priority item carries is listed in
\* missing_in_priority, and item_details holds one entry per Priority item,
\* in order.
C6_NoCodeDropped ==
    pc = "return" =>
        LET r == item_validation
        IN  /\ \A i \in 1..Len(priority_items) :
                  (\A j \in 1..Len(ai_items) :
                       ai_items[j].product_code # priority_items[i].PARTNAME)
                  => priority_items[i].PARTNAME \in Range(r.mismatches.missing_in_ai)
            /\ \A j \in 1..Len(ai_items) :
                  (\A i \in 1..Len(priority_items) :
                       priority_items[i].PARTNAME # ai_items[j].product_code)
                  => ai_items[j].product_code
                         \in Range(r.mismatches.missing_in_priority)
            /\ Len(r.item_details) = Len(priority_items)
            /\ \A i \in 1..Len(priority_items) :
                  r.item_details[i].partname = priority_items[i].PARTNAME

\* a run of the matcher with a code on the Priority side only and another on
\* the extracted side only
C6_Witness ==
    /\ pc = "return"
    /\ Len(item_validation.mismatches.missing_in_ai) > 0
    /\ Len(item_validation.mismatches.missing_in_priority) > 0
    /\ Len(priority_items) > 1

\* C7: all_items_valid is true iff every Priority item has an extracted
\* counterpart whose quantity_match and price_match are both true and both
\* missing lists are empty; validation_passed of an item is true iff both of
\* its match flags are.
C7_AllItemsValid ==
    pc = "return" =>
        LET r == item_validation
        IN  /\ r.all_items_valid <=>
                  /\ \A i \in 1..Len(priority_items) :
                        /\ \E j \in 1..Len(ai_items) :
                              ai_items[j].product_code = priority_items[i].PARTNAME
                        /\ r.item_details[i].quantity_match
                        /\ r.item_details[i].price_match
                  /\ r.mismatches.missing_in_ai = <<>>
                  /\ r.mismatches.missing_in_priority = <<>>
            /\ \A i \in 1..Len(r.item_details) :
                  r.item_details[i].validation_passed <=>
                      (r.item_details[i].quantity_match
                       /\ r.item_details[i].price_match)

\* every item matched on both dimensions: all_items_valid is true
C7_Witness ==
    /\ pc = "return"
    /\ Len(priority_items) > 1
    /\ item_validation.all_items_valid

\* inputs of equal length whose content differs
SameLengthDifferentContent ==
    \E p \in MatchPriorityInputs, a \in MatchAiInputs :
        /\ ValidateItemsDetail(p, a).item_count_match
        /\ ~ValidateItemsDetail(p, a).all_items_valid

\* inputs of different length in which every item agrees
DifferentLengthAllValid ==
    \E p \in MatchPriorityInputs, a \in MatchAiInputs :
        /\ ~ValidateItemsDetail(p, a).item_count_match
        /\ ValidateItemsDetail(p, a).all_items_valid

\* C8: item_count_match is true iff the two sequences have equal length, and
\* it is independent of all_items_valid: some inputs give item_count_match
\* without all_items_valid, some give all_items_valid without
\* item_count_match.
C8_ItemCountMatch ==
    /\ pc = "return" =>
          (item_validation.item_count_match <=> Len(priority_items) = Len(ai_items))
    /\ SameLengthDifferentContent
    /\ DifferentLengthAllValid

\* a duplicate extracted code: the lengths differ and every item agrees
C8_Witness ==
    /\ pc = "return"
    /\ ~item_validation.item_count_match
    /\ item_validation.all_items_valid
    /\ \E i, j \in 1..Len(ai_items) :
          i # j /\ ai_items[i].product_code = ai_items[j].product_code

-----------------------------------------------------------------------------
(* Specification of the shipping reconciler alone *)

InitShipping ==
    /\ pc = "call"
    /\ priority_items \in
          {WithKlines(s) : s \in SeqsUpTo(ShippingPriorityPool, MaxPriorityItems)}
    /\ ai_items \in SeqsUpTo(ShippingAiPool, MaxAiItems)
    /\ ai_shipping_info \in ShippingHints
    /\ item_validation = None
    /\ shipping_validation = None
    /\ scan_calls = 0
    /\ extraction_validation = None
    /\ RunIdle
    /\ NormalizerIdle
    /\ NoOtherRuns

\* shipping_validation_results = self.validate_shipping_charges(
\*     original_order_items, validation_items, ai_shipping_info)
ValidateShippingChargesCall ==
    /\ pc = "call"
    /\ shipping_validation' =
          ValidateShippingCharges(priority_items, ai_items, ai_shipping_info)
    /\ scan_calls' = scan_calls + (IF ScansItems(ai_shipping_info) THEN 1 ELSE 0)
    /\ pc' = "return"
    /\ UNCHANGED <<priority_items, ai_items, ai_shipping_info, item_validation,
                   extraction_validation>>
    /\ UNCHANGED run_vars
    /\ UNCHANGED <<normalizer_vars, runs>>

SpecShipping == InitShipping /\ [][ValidateShippingChargesCall]_vars

\* the Priority items whose PARTNAME begins with the letters S, H
ShippingLines(pr) ==
    {i \in 1..Len(pr) :
        Len(pr[i].PARTNAME) >= 2 /\ pr[i].PARTNAME[1] = "S" /\ pr[i].PARTNAME[2] = "H"}

\* the sum of VATPRICE over a set of lines of pr
RECURSIVE SumOver(_, _)
SumOver(pr, lines) ==
    IF lines = {} THEN 0
    ELSE LET i == CHOOSE i \in lines : TRUE
         IN  pr[i].VATPRICE + SumOver(pr, lines \ {i})

\* C3: shipping reconciliation puts every input in exactly one of four cases
\* by (Priority shipping present, extracted shipping present) and passes or
\* fails by the decision table: both present, pass iff the two amounts differ
\* by less than 0.01; one side only, fail; neither, pass. Priority shipping is
\* present iff some item carries the SH prefix, and its total is the sum of
\* the prices of all such items.
C3_ShippingDecisionTable ==
    pc = "return" =>
        LET r == shipping_validation
            lines == ShippingLines(priority_items)
            total == SumOver(priority_items, lines)
            hasP == lines # {}
            hasE == r.ai_shipping_info # None
            amount == r.ai_shipping_info[1].price_numeric
        IN  /\ Len(r.priority_shipping_items) = Cardinality(lines)
            /\ r.priority_shipping_total = total
            /\ r.validation_case =
                  (IF hasP /\ hasE THEN "both_exist_compare_prices"
                   ELSE IF hasP THEN "priority_has_ai_missing"
                   ELSE IF hasE THEN "ai_has_priority_missing"
                   ELSE "neither_has_shipping")
            /\ r.shipping_validation_passed <=>
                  \/ hasP /\ hasE /\ total - amount < Scale \div 100
                                  /\ amount - total < Scale \div 100
                  \/ ~hasP /\ ~hasE

\* two Priority shipping items whose sum agrees with the extracted amount
C3_Witness ==
    /\ pc = "return"
    /\ Cardinality(ShippingLines(priority_items)) = 2
    /\ shipping_validation.validation_case = "both_exist_compare_prices"
    /\ shipping_validation.shipping_validation_passed

\* C10: with a shipping hint, shipping reconciliation takes the hint as the
\* extracted shipping and its price_numeric as the extracted amount, and
\* does not scan the extracted items; it scans them only without a hint.
C10_HintPrecedence ==
    pc = "return" =>
        LET r == shipping_validation
            lines == ShippingLines(priority_items)
            total == SumOver(priority_items, lines)
        IN  /\ ai_shipping_info # None =>
                  /\ r.ai_shipping_info = ai_shipping_info
                  /\ scan_calls = 0
                  /\ lines # {} =>
                        (r.shipping_validation_passed <=>
                            Abs(total - ai_shipping_info[1].price_numeric)
                                < Scale \div 100)
                  /\ lines = {} => ~r.shipping_validation_passed
            /\ ai_shipping_info = None => scan_calls = 1

\* a hint together with an extracted shipping line of another amount: the
\* hint's amount decides
C10_Witness ==
    /\ pc = "return"
    /\ ai_shipping_info # None
    /\ \E i \in 1..Len(ai_items) :
          /\ Contains(Lower(ai_items[i].description), <<"s", "h", "i", "p", "p", "i", "n", "g">>)
          /\ ExtractNumericPrice(ai_items[i].item_total)
                 # ai_shipping_info[1].price_numeric
    /\ shipping_validation.shipping_validation_passed

\* the extracted items whose code or description holds a shipping keyword
KeywordItems(ai) ==
    {i \in 1..Len(ai) :
        \E k \in 1..Len(ShippingKeywords) :
            \/ Contains(Lower(ai[i].product_code), ShippingKeywords[k])
            \/ Contains(Lower(ai[i].description), ShippingKeywords[k])}

\* C12: without a shipping hint the extracted shipping is the first
\* extracted item, in sequence order, whose code or description holds a
\* shipping keyword, with the amount of that item's total price field; later
\* items that hold a keyword are ignored, and when no item holds one the
\* extracted shipping is absent.
C12_FirstKeywordItem ==
    (pc = "return" /\ ai_shipping_info = None) =>
        LET r == shipping_validation.ai_shipping_info
            K == KeywordItems(ai_items)
            first == CHOOSE i \in K : \A j \in K : i <= j
        IN  IF K = {} THEN r = None
            ELSE /\ r # None
                 /\ r[1].ai_item = ai_items[first]
                 /\ r[1].price_raw = ai_items[first].item_total
                 /\ r[1].price_numeric
                       = ExtractNumericPrice(ai_items[first].item_total)

\* two extracted shipping lines of different amounts and no hint: the
\* first one is the extracted shipping
C12_Witness ==
    /\ pc = "return"
    /\ ai_shipping_info = None
    /\ Cardinality(KeywordItems(ai_items)) = 2
    /\ ai_items[1].item_total # ai_items[2].item_total
    /\ shipping_validation.ai_shipping_info[1].price_numeric
          = ExtractNumericPrice(ai_items[1].item_total)
    /\ shipping_validation.ai_shipping_info[1].price_numeric
          # ExtractNumericPrice(ai_items[2].item_total)

-----------------------------------------------------------------------------
(* Specification of the three price comparisons alone: one line whose price *)
(* is also the total of its order, compared with one extracted amount      *)

\* the prices of the line lie within Span units of 1/Scale around 10.00
Span == 120

ThresholdAmounts == {Amount1000 + d : d \in (0 - Span)..Span}

ThresholdExtractedPrices ==
    {<<"U", "S", "D", " ", "1", "0", ".", "0", "0">>,
     <<"1", "0", ",", "0", "0">>}

InitThreshold ==
    /\ pc = "call"
    /\ \E amount \in ThresholdAmounts :
          /\ priority_items = WithKlines(<<PriorityItem(PartA, 1, amount)>>)
          /\ priority_order =
                <<Order(<<PriorityItem(PartA, 1, amount)>>, SupplierOrderNumber)>>
    /\ \E extracted \in ThresholdExtractedPrices :
          ai_items = <<AiItem(PartA, Widget, <<"1", " ", "E", "A">>, extracted,
                              Date1)>>
    /\ ai_shipping_info = None
    /\ item_validation = None
    /\ shipping_validation = None
    /\ scan_calls = 0
    /\ extraction_validation = None
    /\ customer_po = ValidPo
    /\ result_data = None
    /\ priority_data = None
    /\ price_validation = None
    /\ matched_items = <<>>
    /\ update_results = <<>>
    /\ success_count = 0
    /\ order_number_update = None
    /\ requests = <<>>
    /\ response = None
    /\ priority_date_str = None
    /\ NormalizerIdle
    /\ NoOtherRuns

\* the price check of validate_items_detail on the line
ItemPriceCheck ==
    /\ pc = "call"
    /\ item_validation' = ValidateItemsDetail(priority_items, ai_items)
    /\ pc' = "total"
    /\ UNCHANGED <<priority_items, ai_items, ai_shipping_info,
                   shipping_validation, scan_calls, extraction_validation>>
    /\ UNCHANGED run_vars
    /\ UNCHANGED <<normalizer_vars, runs>>

\* the price check of get_order_data on the total of the order
TotalPriceCheck ==
    /\ pc = "total"
    /\ price_validation' =
          <<GetOrderData(customer_po, <<ai_items[1].item_total>>, "ok",
                         priority_order).price_validation>>
    /\ pc' = "report"
    /\ UNCHANGED validator_vars
    /\ UNCHANGED <<customer_po, priority_order, result_data, priority_data,
                   matched_items, update_results, success_count,
                   order_number_update, requests, response>>
    /\ UNCHANGED <<normalizer_vars, priority_date_str, runs>>

\* the price check of validate_extraction_results on the line
ReportPriceCheck ==
    /\ pc = "report"
    /\ extraction_validation' =
          ValidateExtractionResults(ai_items, priority_items)
    /\ pc' = "return"
    /\ UNCHANGED <<priority_items, ai_items, ai_shipping_info, item_validation,
                   shipping_validation, scan_calls>>
    /\ UNCHANGED run_vars
    /\ UNCHANGED <<normalizer_vars, runs>>

NextThreshold == ItemPriceCheck \/ TotalPriceCheck \/ ReportPriceCheck

SpecThreshold == InitThreshold /\ [][NextThreshold]_vars

\* the distance between the price of the line and the extracted amount
ThresholdDifference ==
    Abs(priority_items[1].VATPRICE
        - ReportExtractNumericPrice(ai_items[1].item_total))

-----------------------------------------------------------------------------
(* One run of the pipeline: ProcessOrder.post *)

\* delivery_address of post: the extraction's delivery_address; the other
\* values of order_info match none of the address patterns
DeliveryAddress(order_info) == order_info.delivery_address

\* STEP 1: customer_po, po_response = processor.process_pdf_from_memory(...)
ExtractCustomerPo ==
    /\ pc = "extract_po"
    /\ \E result_text \in RunPoResponses :
          LET po == ExtractPoFromResponse(result_text)
          IN  /\ customer_po' = po
              /\ IF po = <<>>
                 THEN /\ response' = <<[code |-> 400]>>
                      /\ pc' = "done"
                 ELSE /\ response' = response
                      /\ pc' = "priority_check"
    /\ UNCHANGED validator_vars
    /\ UNCHANGED <<priority_order, result_data, priority_data, price_validation,
                   matched_items, update_results, success_count,
                   order_number_update, requests>>
    /\ UNCHANGED <<normalizer_vars, priority_date_str, runs>>

\* STEP 2: exists, priority_data, _ = priority_client.get_order_data(customer_po)
PriorityCheck ==
    /\ pc = "priority_check"
    /\ \E outcome \in GetOutcomes :
          LET r == GetOrderData(customer_po, None, outcome, priority_order)
          IN  /\ requests' = requests \o GetOrderDataRequests(customer_po)
              /\ IF r.success
                 THEN /\ priority_data' = <<r.data>>
                      /\ response' = response
                      /\ pc' = "process_document"
                 ELSE /\ priority_data' = priority_data
                      /\ response' = <<[code |-> 404]>>
                      /\ pc' = "done"
    /\ UNCHANGED validator_vars
    /\ UNCHANGED <<customer_po, priority_order, result_data, price_validation,
                   matched_items, update_results, success_count,
                   order_number_update>>
    /\ UNCHANGED <<normalizer_vars, priority_date_str, runs>>

\* STEP 3 and STEP 4: the extraction of the whole document, the report and
\* the shipping hint; a ValueError of the hint is answered with 500
ProcessDocumentOf(documents) ==
    /\ pc = "process_document"
    /\ \E doc \in documents :
          LET hint == ExtractShippingFromOrderInfo(doc.order_info,
                                                   ValidItems(doc.items))
          IN  /\ result_data' = <<doc>>
              /\ extraction_validation' =
                    ValidateExtractionResults(doc.items,
                        priority_data[1].PORDERITEMS_SUBFORM)
              /\ IF hint[1]
                 THEN /\ ai_shipping_info' = hint[2]
                      /\ response' = response
                      /\ pc' = "update_order_items"
                 ELSE /\ ai_shipping_info' = ai_shipping_info
                      /\ response' = <<[code |-> 500]>>
                      /\ pc' = "done"
    /\ UNCHANGED <<priority_items, ai_items, item_validation,
                   shipping_validation, scan_calls>>
    /\ UNCHANGED <<customer_po, priority_order, priority_data, price_validation,
                   matched_items, update_results, success_count,
                   order_number_update, requests>>
    /\ UNCHANGED <<normalizer_vars, priority_date_str, runs>>

\* STEP 3 and STEP 4 on the documents of a run
ProcessDocument == ProcessDocumentOf(RunDocuments)

\* a test of the order items that never stops the run
NoOrderItemsNever(order_items) == FALSE

\* "if not order_items": return False, "No order items found in Priority"
NoOrderItems(order_items) == order_items = <<>>

\* update_order_items up to matched_items: the second fetch, now with the
\* extracted total price, the two validators and the overall result
UpdateOrderItemsFetch ==
    /\ pc = "update_order_items"
    /\ \E outcome \in GetOutcomes :
          LET doc == result_data[1]
              r == GetOrderData(customer_po,
                                <<ExtractedTotalPrice(doc.order_info)>>,
                                outcome, priority_order)
              order_items == r.data.PORDERITEMS_SUBFORM
              original_order_items == r.data.original_items
              iv == ValidateItemsDetail(order_items, doc.items)
              sv == ValidateShippingCharges(original_order_items, doc.items,
                                            ai_shipping_info)
              pv == r.price_validation
              matched == MatchedItems(ValidItems(doc.items), order_items)
          IN  /\ requests' = requests \o GetOrderDataRequests(customer_po)
              /\ IF ~r.success
                 THEN /\ price_validation' = None
                      /\ pc' = "respond"
                      /\ UNCHANGED <<validator_vars, matched_items>>
                 ELSE IF NoOrderItems(order_items)
                 THEN /\ price_validation' = <<pv>>
                      /\ pc' = "respond"
                      /\ UNCHANGED <<validator_vars, matched_items>>
                 ELSE /\ priority_items' = original_order_items
                      /\ ai_items' = doc.items
                      /\ item_validation' = iv
                      /\ shipping_validation' = sv
                      /\ scan_calls' = scan_calls
                            + (IF ScansItems(ai_shipping_info) THEN 1 ELSE 0)
                      /\ price_validation' =
                            <<IF pv.validation_attempted
                              THEN pv @@ [overall_validation_pass |->
                                       OverallValidationPass(pv.price_match,
                                           iv.all_items_valid,
                                           sv.shipping_validation_passed)]
                              ELSE pv>>
                      /\ matched_items' = matched
                      /\ pc' = IF matched = <<>> THEN "final_status"
                               ELSE "update_line"
                      /\ UNCHANGED <<ai_shipping_info, extraction_validation>>
    /\ UNCHANGED <<customer_po, priority_order, result_data, priority_data,
                   update_results, success_count, order_number_update,
                   response>>
    /\ UNCHANGED <<normalizer_vars, priority_date_str, runs>>

\* the REQDATE of the line with KLINE kline_id becomes converted_date
WithReqdate(order, kline_id, converted_date) ==
    <<[order[1] EXCEPT !.PORDERITEMS_SUBFORM =
         [i \in 1..Len(@) |->
            IF @[i].KLINE = kline_id
            THEN [@[i] EXCEPT !.REQDATE = converted_date] ELSE @[i]]]>>

\* a loop that is left after its first pass
AfterLineItemLeaves(processed, total) == "final_status"

\* "for item in matched_items" goes on until every item had its pass
AfterLineItem(processed, total) ==
    IF processed = total THEN "final_status" ELSE "update_line"

\* one pass of "for item in matched_items": the date of one line
UpdateLineItem ==
    /\ pc = "update_line"
    /\ LET item == matched_items[Len(update_results) + 1]
           delivery_address == DeliveryAddress(result_data[1].order_info)
           calculated ==
               CalculatePriorityDate(item.delivery_date, delivery_address)
           converted == ConvertDateFormat(calculated)
           result(status) ==
               [product_code |-> item.product_code, kline_id |-> item.kline_id,
                status |-> status,
                original_delivery_date |-> item.delivery_date,
                calculated_priority_date |-> calculated,
                date |-> converted[2]]
       IN  /\ IF ~converted[1]
              THEN /\ update_results' =
                         Append(update_results,
                                [product_code |-> item.product_code,
                                 kline_id |-> item.kline_id,
                                 status |-> "date_error"])
                   /\ UNCHANGED <<requests, success_count, priority_order>>
              ELSE /\ requests' = Append(requests,
                         PatchRequest("PORDERITEMS_SUBFORM", item.kline_id,
                                      [REQDATE |-> converted[2]]))
                   /\ \E outcome \in PatchOutcomes :
                         \/ /\ outcome = "ok"
                            /\ update_results' =
                                  Append(update_results, result("success"))
                            /\ success_count' = success_count + 1
                            /\ priority_order' =
                                  WithReqdate(priority_order, item.kline_id,
                                              converted[2])
                         \/ /\ outcome = "rejected"
                            /\ update_results' =
                                  Append(update_results, result("failed"))
                            /\ UNCHANGED <<success_count, priority_order>>
                         \/ /\ outcome = "error"
                            /\ update_results' =
                                  Append(update_results,
                                         [product_code |-> item.product_code,
                                          kline_id |-> item.kline_id,
                                          status |-> "network_error"])
                            /\ UNCHANGED <<success_count, priority_order>>
           /\ priority_date_str' = <<calculated>>
           /\ pc' = AfterLineItem(Len(update_results) + 1,
                                  Len(matched_items))
    /\ UNCHANGED validator_vars
    /\ UNCHANGED <<customer_po, result_data, priority_data, price_validation,
                   matched_items, order_number_update, response>>
    /\ UNCHANGED <<normalizer_vars, runs>>

\* an update that reports success whatever the date writes did
UpdateSuccessAlways(count) == TRUE

\* the first value update_order_items returns after the date loop: False
\* "if success_count == 0", True otherwise
UpdateSuccess(count) == count > 0

\* the STATDES of the order becomes new_status
WithStatdes(order, new_status) == <<[order[1] EXCEPT !.STATDES = new_status]>>

\* the end of update_order_items: the results of the unmatched items and
\* final_status_updated = self.update_final_status(customer_po,
\* price_validation), which sends at most one PATCH of STATDES
UpdateFinalStatus ==
    /\ pc = "final_status"
    /\ update_results' =
          WithUnmatched(update_results, ValidItems(result_data[1].items))
    /\ LET pv == price_validation[1]
           final == FinalStatus(pv, item_validation, shipping_validation)
           failed == [attempted |-> TRUE, success |-> FALSE,
                      intended_status |-> final.new_status,
                      reason |-> final.status_reason]
       IN  IF ~pv.validation_attempted
           THEN UNCHANGED <<requests, priority_order, price_validation>>
           ELSE /\ requests' = Append(requests,
                      PatchRequest("PORDERS", 0, [STATDES |-> final.new_status]))
                /\ \E outcome \in PatchOutcomes :
                      \/ /\ outcome = "ok"
                         /\ priority_order' =
                               WithStatdes(priority_order, final.new_status)
                         /\ price_validation' =
                               <<pv @@ [final_status_update |->
                                   [attempted |-> TRUE, success |-> TRUE,
                                    final_status |-> final.new_status,
                                    reason |-> final.status_reason]]>>
                      \/ /\ outcome \in {"rejected", "error"}
                         /\ priority_order' = priority_order
                         /\ price_validation' =
                               <<pv @@ [final_status_update |-> failed]>>
    /\ pc' = IF UpdateSuccess(success_count) THEN "order_number"
             ELSE "respond"
    /\ UNCHANGED validator_vars
    /\ UNCHANGED <<customer_po, result_data, priority_data, matched_items,
                   success_count, order_number_update, response>>
    /\ UNCHANGED <<normalizer_vars, priority_date_str, runs>>

\* STEP 5: priority_client.update_order_number(customer_po): a third fetch
\* and a PATCH of the SUPORDNUM and SUPNAME the order already has
UpdateOrderNumber ==
    /\ pc = "order_number"
    /\ \E outcome \in GetOutcomes :
          LET r == GetOrderData(customer_po, None, outcome, priority_order)
              order_number == r.data.SUPORDNUM
              supplier_name == r.data.SUPNAME
              fetched == requests \o GetOrderDataRequests(customer_po)
              result(success, message) ==
                  <<[attempted |-> TRUE, success |-> success,
                     message |-> message]>>
          IN  IF ~r.success
              THEN /\ requests' = fetched
                   /\ order_number_update' = result(FALSE,
                         "Could not retrieve order data from Priority")
              ELSE IF order_number = <<>>
              THEN /\ requests' = fetched
                   /\ order_number_update' = result(FALSE,
                         "SUPORDNUM cannot be null or empty")
              ELSE IF supplier_name = <<>>
              THEN /\ requests' = fetched
                   /\ order_number_update' = result(FALSE,
                         "SUPNAME cannot be null or empty")
              ELSE /\ requests' = Append(fetched,
                         PatchRequest("PORDERS", 0,
                             [SUPORDNUM |-> order_number,
                              SUPNAME |-> supplier_name]))
                   /\ \E patch \in PatchOutcomes :
                         order_number_update' =
                            IF patch = "ok"
                            THEN result(TRUE, "Order number updated successfully")
                            ELSE IF patch = "rejected"
                            THEN result(FALSE, "Order number update failed")
                            ELSE result(FALSE,
                                        "Network error updating order number")
    /\ pc' = "respond"
    /\ UNCHANGED validator_vars
    /\ UNCHANGED <<customer_po, priority_order, result_data, priority_data,
                   price_validation, matched_items, update_results,
                   success_count, response>>
    /\ UNCHANGED <<normalizer_vars, priority_date_str, runs>>

\* the response of post after update_order_items returned
Respond ==
    /\ pc = "respond"
    /\ response' =
          <<[code |-> 200,
             priority_update |-> [attempted |-> TRUE,
                                  success |-> UpdateSuccess(success_count)],
             order_number_update |->
                 IF order_number_update = None
                 THEN [attempted |-> FALSE, success |-> FALSE,
                       message |-> "Skipped due to failed date updates"]
                 ELSE order_number_update[1]]>>
    /\ pc' = "done"
    /\ UNCHANGED validator_vars
    /\ UNCHANGED <<customer_po, priority_order, result_data, priority_data,
                   price_validation, matched_items, update_results,
                   success_count, order_number_update, requests>>
    /\ UNCHANGED <<normalizer_vars, priority_date_str, runs>>

Init ==
    /\ pc = "extract_po"
    /\ priority_items = <<>>
    /\ ai_items = <<>>
    /\ ai_shipping_info = None
    /\ item_validation = None
    /\ shipping_validation = None
    /\ scan_calls = 0
    /\ extraction_validation = None
    /\ customer_po = <<>>
    /\ priority_order \in RunOrders
    /\ result_data = None
    /\ priority_data = None
    /\ price_validation = None
    /\ matched_items = <<>>
    /\ update_results = <<>>
    /\ success_count = 0
    /\ order_number_update = None
    /\ requests = <<>>
    /\ response = None
    /\ priority_date_str = None
    /\ NormalizerIdle
    /\ NoOtherRuns

Next ==
    \/ ExtractCustomerPo
    \/ PriorityCheck
    \/ ProcessDocument
    \/ UpdateOrderItemsFetch
    \/ UpdateLineItem
    \/ UpdateFinalStatus
    \/ UpdateOrderNumber
    \/ Respond

Spec == Init /\ [][Next]_vars

\* a request that writes the status of the order
IsStatusWrite(request) ==
    request.method = "PATCH" /\ "STATDES" \in DOMAIN request.payload

\* the positions of the status writes among the requests sent so far
StatusWrites == {i \in 1..Len(requests) : IsStatusWrite(requests[i])}

\* the five criteria as the validators of this run reported them
CriteriaOfRun ==
    [price_match |-> price_validation[1].price_match,
     all_items_valid |-> item_validation.all_items_valid,
     item_count_match |-> item_validation.item_count_match,
     missing_count |-> Len(item_validation.mismatches.missing_in_ai),
     shipping_valid |-> shipping_validation.shipping_validation_passed]

\* C1: whenever a run has decided the status, the status it chose is the
\* approval if and only if the total price matched, all items were valid,
\* the item counts matched, no item was missing in the extraction and the
\* shipping validation passed; otherwise it is the sent-back status.
C1_ApprovedIffAllFive ==
    \A i \in StatusWrites :
        LET c == CriteriaOfRun
            all_five == /\ c.price_match /\ c.all_items_valid
                        /\ c.item_count_match /\ c.missing_count = 0
                        /\ c.shipping_valid
        IN  /\ requests[i].payload.STATDES = StatusApproved <=> all_five
            /\ requests[i].payload.STATDES = StatusSentToSupplier <=> ~all_five

\* a run that approved, and the criteria it approved on
C1_Witness ==
    /\ pc = "done"
    /\ \E i \in StatusWrites : requests[i].payload.STATDES = StatusApproved
    /\ CriteriaOfRun.price_match /\ CriteriaOfRun.item_count_match
    /\ priority_order[1].STATDES = StatusApproved

\* C2: in a run whose document has no total_price, no comparison of the
\* totals is attempted, no status write is sent and the order keeps the
\* status it had.
C2_NoTotalNoDecision ==
    (result_data # None /\ result_data[1].order_info.total_price = <<>>)
        => /\ StatusWrites = {}
           /\ price_validation # None
                 => ~price_validation[1].validation_attempted
           /\ priority_order[1].STATDES = StatusBeforeRun

\* a run whose document has no total_price and whose status write was sent
\* and accepted
C2_Witness ==
    /\ result_data # None
    /\ result_data[1].order_info.total_price = <<>>
    /\ price_validation # None
    /\ price_validation[1].validation_attempted
    /\ StatusWrites # {}
    /\ priority_order[1].STATDES = StatusSentToSupplier

\* the status and the reason update_final_status recorded
RecordedStatus(final_status_update) ==
    IF final_status_update.success THEN final_status_update.final_status
    ELSE final_status_update.intended_status

\* C4: when the status chosen is the sent-back status, the reason names
\* every criterion that failed and no criterion that passed: total price,
\* item price/quantity, item count, missing items (with their number) and
\* shipping.
C4_ReasonListsEveryFailure ==
    (price_validation # None
     /\ "final_status_update" \in DOMAIN price_validation[1]
     /\ RecordedStatus(price_validation[1].final_status_update)
            = StatusSentToSupplier)
        => LET reason == price_validation[1].final_status_update.reason
               c == CriteriaOfRun
           IN  /\ StartsWith(reason, ReasonFailed)
               /\ Contains(reason, IssuePrice) <=> ~c.price_match
               /\ Contains(reason, IssueItems) <=> ~c.all_items_valid
               /\ Contains(reason, IssueCount) <=> ~c.item_count_match
               /\ Contains(reason, IssueMissing) <=> c.missing_count # 0
               /\ c.missing_count # 0 =>
                     Contains(reason, NatDigits(c.missing_count) \o IssueMissing)
               /\ Contains(reason, IssueShipping) <=> ~c.shipping_valid

\* a rejection on the item count and the shipping alone
C4_Witness ==
    /\ price_validation # None
    /\ "final_status_update" \in DOMAIN price_validation[1]
    /\ RecordedStatus(price_validation[1].final_status_update)
           = StatusSentToSupplier
    /\ CriteriaOfRun.price_match /\ CriteriaOfRun.all_items_valid
    /\ ~CriteriaOfRun.item_count_match /\ ~CriteriaOfRun.shipping_valid
    /\ Contains(price_validation[1].final_status_update.reason,
                IssueCount \o <<",", " ">> \o IssueShipping)

\* C5: a run sends at most one status write, the value written is one of
\* the two terminal statuses, and the status of the order is the one it had
\* before the run until that write is accepted and the written one ever
\* after.
C5_OneTerminalStatusWrite ==
    /\ Cardinality(StatusWrites) <= 1
    /\ \A i \in StatusWrites :
          requests[i].payload.STATDES \in {StatusApproved, StatusSentToSupplier}
    /\ priority_order # None =>
          IF /\ price_validation # None
             /\ "final_status_update" \in DOMAIN price_validation[1]
             /\ price_validation[1].final_status_update.success
          THEN \E i \in StatusWrites :
                  priority_order[1].STATDES = requests[i].payload.STATDES
          ELSE priority_order[1].STATDES = StatusBeforeRun

\* a finished run whose status write was accepted and followed by the
\* requests of the order number update
C5_Witness ==
    /\ pc = "done"
    /\ \E i \in StatusWrites :
          /\ i < Len(requests)
          /\ priority_order[1].STATDES = requests[i].payload.STATDES
    /\ priority_order[1].STATDES # StatusBeforeRun

\* the line identifier and the product code of each item of a list
Lines(items) == [i \in 1..Len(items) |-> <<items[i].KLINE, items[i].PARTNAME>>]

\* whether a product code begins with the letters S, H
HasShippingPrefix(partname) ==
    Len(partname) >= 2 /\ partname[1] = "S" /\ partname[2] = "H"

\* C13: of every fetched order, the list handed to merchandise matching
\* holds no item whose product code has the shipping prefix and holds every
\* other fetched item, and the list handed to shipping reconciliation holds
\* all fetched items, the shipping-prefixed ones included.
C13_ShippingItemsKeptApart ==
    LET fetched == Lines(priority_order[1].PORDERITEMS_SUBFORM)
        merchandise == SelectSeq(fetched, LAMBDA l : ~HasShippingPrefix(l[2]))
        shipping == SelectSeq(fetched, LAMBDA l : HasShippingPrefix(l[2]))
    IN  /\ priority_data # None =>
              /\ Lines(priority_data[1].PORDERITEMS_SUBFORM) = merchandise
              /\ Lines(priority_data[1].original_items) = fetched
        /\ item_validation # None =>
              /\ Len(item_validation.item_details) = Len(merchandise)
              /\ \A i \in 1..Len(merchandise) :
                    item_validation.item_details[i].partname = merchandise[i][2]
              /\ Lines(priority_items) = fetched
              /\ Len(shipping_validation.priority_shipping_items)
                    = Len(shipping)
              /\ \A i \in 1..Len(shipping) :
                    shipping_validation.priority_shipping_items[i].partname
                        = shipping[i][2]

\* an order of a shipping line and a merchandise line after both validators
\* ran: one item was matched, two were reconciled
C13_Witness ==
    /\ item_validation # None
    /\ Len(priority_order[1].PORDERITEMS_SUBFORM) = 2
    /\ HasShippingPrefix(priority_order[1].PORDERITEMS_SUBFORM[1].PARTNAME)
    /\ Len(item_validation.item_details) = 1
    /\ Len(priority_items) = 2
    /\ Len(shipping_validation.priority_shipping_items) = 1

-----------------------------------------------------------------------------
(* Specification of the shipping hint alone: STEP 3 and STEP 4 of post on   *)
(* documents whose order-level fields vary                                   *)

HintShippingCosts ==
    {<<>>,
     <<"0">>,
     <<"U", "S", "D", " ", "5", ".", "0", "0">>,
     <<"U", "S", "D", " ", "7", ",", "5", "0">>,
     <<"5", ",", "0", "0">>,
     <<"U", "S", "D", " ", "0", ".", "0", "0">>,
     <<"1", ",", "2", "3", "4", ".", "5", "6">>,
     <<"1", ".", "2", "3", "4", ",", "5", "6">>,
     <<"1", ".", "2", "3", "4", ".", "5", "6">>,
     <<"f", "r", "e", "e">>,
     <<" ">>}

HintAddresses == {Address, <<"9", " ", "F", "r", "e", "i", "g", "h", "t", " ", "L", "a", "n", "e">>}

HintDocuments ==
    {[order_info |-> [delivery_address |-> address,
                      total_price |-> <<"U", "S", "D", " ", "1", "0", ".", "0", "0">>,
                      shipping_cost |-> shipping],
      items |-> items] :
        address \in HintAddresses, shipping \in HintShippingCosts,
        items \in SeqsUpTo(RunAiPool, MaxAiItems - 1)}

\* the state of post after STEP 2 found one of orders
AfterPriorityCheck(orders) ==
    /\ pc = "process_document"
    /\ priority_items = <<>>
    /\ ai_items = <<>>
    /\ ai_shipping_info = None
    /\ item_validation = None
    /\ shipping_validation = None
    /\ scan_calls = 0
    /\ extraction_validation = None
    /\ customer_po = ValidPo
    /\ priority_order \in orders
    /\ result_data = None
    /\ priority_data =
          <<GetOrderData(customer_po, None, "ok", priority_order).data>>
    /\ price_validation = None
    /\ matched_items = <<>>
    /\ update_results = <<>>
    /\ success_count = 0
    /\ order_number_update = None
    /\ requests = GetOrderDataRequests(customer_po)
    /\ response = None
    /\ priority_date_str = None
    /\ NormalizerIdle
    /\ NoOtherRuns

InitHint == AfterPriorityCheck(RunOrders \ {None})

ProcessHintDocument == ProcessDocumentOf(HintDocuments)

SpecHint == InitHint /\ [][ProcessHintDocument]_vars

\* C11: a shipping hint derived from an order-level field is produced only
\* when the normalized amount of that field is positive, and its
\* price_numeric is the normalized amount of the field's raw text under the
\* separator rules of the numeric normalizer, so that a decimal comma and a
\* decimal period give the same price_numeric; and the derivation of the
\* hint does not end the request.
C11_HintIsNormalizedAmount ==
    /\ ai_shipping_info # None =>
          /\ ExtractNumericPrice(ai_shipping_info[1].raw_text) > 0
          /\ ai_shipping_info[1].price_numeric
                = ExtractNumericPrice(ai_shipping_info[1].raw_text)
    /\ response = None

\* a shipping field written with a decimal comma, and the hint made of it
C11_Witness ==
    /\ result_data # None
    /\ result_data[1].order_info.shipping_cost
          = <<"U", "S", "D", " ", "7", ",", "5", "0">>
    /\ ai_shipping_info # None
    /\ ai_shipping_info[1].extraction_type = "direct_field"
    /\ ai_shipping_info[1].price_numeric = 750 * Scale

-----------------------------------------------------------------------------
(* Specification of the date writes alone: post from STEP 3 on, for an      *)
(* order of one line and documents of one item whose delivery date and      *)
(* delivery address vary                                                     *)

\* the number of consecutive days in each window of delivery dates
DateSpan == 14

\* the windows begin before the leap day of 2024 and before the new year
DateWindowStarts == {<<2024, 2, 26>>, <<2024, 12, 30>>}

ValidDates ==
    {FromOrdinal(Ordinal(start) + k, start[1]) :
        start \in DateWindowStarts, k \in 0..(DateSpan - 1)}

\* a date as the documents write it: DD.MM.YYYY
DottedDate(date) ==
    TwoDigits(date[3]) \o <<".">> \o TwoDigits(date[2]) \o <<".">>
        \o NatDigits(date[1])

\* strs that calculate_priority_date cannot parse as a date
InvalidDateInputs ==
    {<<"3", "1", ".", "0", "2", ".", "2", "0", "2", "5">>,
     <<"2", "9", ".", "0", "2", ".", "2", "0", "2", "5">>,
     <<"1", "0", ".", "1", "3", ".", "2", "0", "2", "5">>,
     <<"1", "0", ".", "0", "1">>,
     <<"1", "0", ".", "0", "1", ".", "2", "0", "2", "5", ".">>,
     <<"2", "0", "2", "5", "-", "0", "1", "-", "1", "0">>,
     <<"3", "2", "/", "0", "1", "/", "2", "0", "2", "5">>,
     <<"1", "0", "/", "0", "1", "/", "2", "5">>,
     <<"s", "o", "o", "n">>,
     <<"1", "0", ".", "0", "1", "/", "2", "0", "2", "5">>}

DateInputs ==
    {DottedDate(date) : date \in ValidDates}
        \cup {FormatDate(date) : date \in ValidDates}
        \cup InvalidDateInputs

SpecialAddress == <<"1", "2", " ", "B", "e", "t", " ", "A", "l", "e", "f", " ", "S", "t", ".">>
OnlyNumberAddress == <<"1", "2", " ", "B", "e", "t", " ", "A", "l", "e", "f", " ", "S", "t", "r", "e", "e", "t">>
OnlyStreetAddress == <<"7", " ", "O", "a", "k", " ", "S", "t", ".">>

DateAddresses == {Address, SpecialAddress, OnlyNumberAddress, OnlyStreetAddress}

DateDocuments ==
    {[order_info |-> [delivery_address |-> address,
                      total_price |-> <<"U", "S", "D", " ", "1", "0", ".", "0", "0">>,
                      shipping_cost |-> <<>>],
      items |-> <<AiItem(PartA, Widget, <<"1", " ", "E", "A">>,
                         <<"U", "S", "D", " ", "1", "0", ".", "0", "0">>, date)>>] :
        address \in DateAddresses, date \in DateInputs}

InitDate ==
    AfterPriorityCheck(
        {<<Order(<<PriorityItem(PartA, 1, Amount1000)>>, SupplierOrderNumber)>>})

ProcessDateDocument == ProcessDocumentOf(DateDocuments)

NextDate ==
    \/ ProcessDateDocument
    \/ UpdateOrderItemsFetch
    \/ UpdateLineItem
    \/ UpdateFinalStatus
    \/ UpdateOrderNumber
    \/ Respond

SpecDate == InitDate /\ [][NextDate]_vars

\* the delivery date and the delivery address of the document of the run
DeliveryDateOfRun == result_data[1].items[1].delivery_date
AddressOfRun == result_data[1].order_info.delivery_address

\* the two ways a document writes a date
WrittenAs(date) == {DottedDate(date), FormatDate(date)}

\* 4 January 2025 is a Saturday, 1 January 2024 a Monday
KnownSaturday == <<2025, 1, 4>>
KnownMonday == <<2024, 1, 1>>

IsSaturday(ordinal) == (ordinal - Ordinal(KnownSaturday)) % 7 = 0

\* d minus 6 days, or the Friday before when that is a Saturday
DefaultRule(date) ==
    IF IsSaturday(Ordinal(date) - 6) THEN Ordinal(date) - 7
    ELSE Ordinal(date) - 6

\* the Thursday of the week, Monday to Sunday, that holds d minus 6 days
ThursdayRule(date) ==
    LET week == (Ordinal(date) - 6 - Ordinal(KnownMonday)) \div 7
    IN  Ordinal(KnownMonday) + 7 * week + 3

\* priority_date_str is the date of ordinal expected, written DD/MM/YYYY
ReturnsOrdinal(expected) ==
    LET returned == ParseSlashDate(priority_date_str[1])
    IN  /\ returned[1]
        /\ Ordinal(returned[2]) = expected
        /\ Len(priority_date_str[1]) = 10

\* C14: for a delivery address that is not the special one and a valid
\* extracted date d, calculate_priority_date returns d minus 6 days, except
\* that it returns d minus 7 days, the Friday, when d minus 6 days is a
\* Saturday; what it returns is never a Saturday.
C14_SixDaysSaturdayToFriday ==
    (priority_date_str # None /\ AddressOfRun # SpecialAddress) =>
        /\ \A date \in ValidDates :
              DeliveryDateOfRun \in WrittenAs(date) =>
                  /\ ReturnsOrdinal(DefaultRule(date))
                  /\ ~IsSaturday(Ordinal(ParseSlashDate(priority_date_str[1])[2]))
        /\ DeliveryDateOfRun = <<"1", "0", ".", "0", "1", ".", "2", "0", "2", "5">>
              => priority_date_str[1] = <<"0", "3", "/", "0", "1", "/", "2", "0", "2", "5">>
        /\ DeliveryDateOfRun = <<"0", "6", ".", "0", "3", ".", "2", "0", "2", "4">>
              => priority_date_str[1] = <<"2", "9", "/", "0", "2", "/", "2", "0", "2", "4">>

\* a date whose sixth day before is Saturday 4 January 2025: the Friday was
\* written to the line
C14_Witness ==
    /\ priority_date_str = <<<<"0", "3", "/", "0", "1", "/", "2", "0", "2", "5">>>>
    /\ DeliveryDateOfRun = <<"1", "0", ".", "0", "1", ".", "2", "0", "2", "5">>
    /\ AddressOfRun = Address
    /\ update_results # <<>>
    /\ update_results[1].status = "success"
    /\ IsSaturday(Ordinal(ParseDeliveryDate(DeliveryDateOfRun)[2]) - 6)

\* C15: for a delivery address that holds both "12 Bet" and "St." and a
\* valid extracted date d, calculate_priority_date returns the Thursday of
\* the Monday-to-Sunday week that holds d minus 6 days, which is d minus 6
\* days itself when that is a Thursday; an address that holds only one of
\* the two markers gets the default rule.
C15_ThursdayOfTheWeek ==
    priority_date_str # None =>
        /\ AddressOfRun = SpecialAddress =>
              /\ \A date \in ValidDates :
                    DeliveryDateOfRun \in WrittenAs(date) =>
                        /\ ReturnsOrdinal(ThursdayRule(date))
                        /\ (Ordinal(date) - 6 - Ordinal(KnownMonday)) % 7 = 3
                              => ReturnsOrdinal(Ordinal(date) - 6)
              /\ DeliveryDateOfRun = <<"1", "0", ".", "0", "1", ".", "2", "0", "2", "5">>
                    => priority_date_str[1] = <<"0", "2", "/", "0", "1", "/", "2", "0", "2", "5">>
        /\ AddressOfRun \in {OnlyNumberAddress, OnlyStreetAddress} =>
              \A date \in ValidDates :
                  DeliveryDateOfRun \in WrittenAs(date) =>
                      ReturnsOrdinal(DefaultRule(date))

\* the special address and a date whose sixth day before is a Saturday: the
\* Thursday two days earlier was written
C15_Witness ==
    /\ priority_date_str = <<<<"0", "2", "/", "0", "1", "/", "2", "0", "2", "5">>>>
    /\ DeliveryDateOfRun = <<"1", "0", ".", "0", "1", ".", "2", "0", "2", "5">>
    /\ AddressOfRun = SpecialAddress
    /\ update_results # <<>>
    /\ update_results[1].status = "success"

\* C16: for a str that is not a parsable calendar date
\* calculate_priority_date does not raise and returns the str unmodified,
\* the item is recorded with a date error and the run goes on to its
\* response.
C16_FallbackUnmodified ==
    (priority_date_str # None /\ DeliveryDateOfRun \in InvalidDateInputs) =>
        /\ priority_date_str[1] = DeliveryDateOfRun
        /\ update_results[1].status = "date_error"
        /\ pc = "done" => response[1].code = 200

\* the run of a document dated 10.01/2025: the date was written to the line
\* as it stood, without the six days, and reported as a success
C16_Witness ==
    /\ pc = "done"
    /\ DeliveryDateOfRun = <<"1", "0", ".", "0", "1", "/", "2", "0", "2", "5">>
    /\ priority_date_str = <<<<"1", "0", "/", "0", "1", "/", "2", "0", "2", "5">>>>
    /\ update_results[1].status = "success"
    /\ \E i \in 1..Len(requests) :
          /\ "REQDATE" \in DOMAIN requests[i].payload
          /\ StartsWith(requests[i].payload.REQDATE, <<"2", "0", "2", "5", "-", "0", "1", "-", "1", "0", "T">>)
    /\ response[1].code = 200

-----------------------------------------------------------------------------
(* Specification of the numeric normalizers alone *)

\* the longest amount, in characters, that is drawn from AmountChars
MaxAmountLen == 5

AmountChars == {"0", "1", ".", ","}

\* amounts with or without a currency and a trailing '-', the examples of
\* the docstrings, and strings without an amount
NormalizerInputs ==
    {prefix \o body \o suffix :
        prefix \in {<<>>, <<"U", "S", "D", " ">>},
        body \in SeqsUpTo(AmountChars, MaxAmountLen),
        suffix \in {<<>>, <<"-">>}}
    \cup {<<" ">>, <<"N", "/", "A">>, <<"U", "S", "D", " ", "3", "8", "3", ".", "0", "4">>, <<"U", "S", "D", " ", "7", ".", "1", "5", "7", ",", "1", "6">>, <<"U", "S", "D", " ", "1", ",", "2", "3", "4", ".", "5", "6">>,
          <<"U", "S", "D", " ", "1", "2", "9", ",", "0", "0">>, <<"U", "S", "D", " ", "1", ",", "2", "3", "4">>, <<"1", ",", "0", "0", ",", "0", "0", "0">>, <<"U", "S", "D", " ", "1", ".", "2", "3", "4">>,
          <<"U", "S", "D", " ", "1", "0", ".", "0", "0", "-">>}

InitNormalizer ==
    /\ pc = "call"
    /\ original_str \in NormalizerInputs
    /\ numeric_price = None
    /\ report_numeric_price = None
    /\ decimal_number = None
    /\ priority_items = <<>>
    /\ ai_items = <<>>
    /\ ai_shipping_info = None
    /\ item_validation = None
    /\ shipping_validation = None
    /\ scan_calls = 0
    /\ extraction_validation = None
    /\ RunIdle
    /\ NoOtherRuns

\* self._extract_numeric_price(original_str)
ExtractNumericPriceCall ==
    /\ pc = "call"
    /\ numeric_price = None
    /\ numeric_price' = <<ExtractNumericPrice(original_str)>>
    /\ UNCHANGED <<pc, original_str, report_numeric_price, decimal_number>>
    /\ UNCHANGED <<validator_vars, run_vars, runs>>

\* ResponseHandler._extract_numeric_price(original_str)
ReportExtractNumericPriceCall ==
    /\ pc = "call"
    /\ report_numeric_price = None
    /\ report_numeric_price' = <<ReportExtractNumericPrice(original_str)>>
    /\ UNCHANGED <<pc, original_str, numeric_price, decimal_number>>
    /\ UNCHANGED <<validator_vars, run_vars, runs>>

\* OrderValidator.clean_number(original_str)
CleanNumberCall ==
    /\ pc = "call"
    /\ decimal_number = None
    /\ decimal_number' = <<CleanNumber(original_str)>>
    /\ UNCHANGED <<pc, original_str, numeric_price, report_numeric_price>>
    /\ UNCHANGED <<validator_vars, run_vars, runs>>

NextNormalizer ==
    \/ ExtractNumericPriceCall
    \/ ReportExtractNumericPriceCall
    \/ CleanNumberCall

SpecNormalizer == InitNormalizer /\ [][NextNormalizer]_vars

\* the digits of s
OnlyDigits(s) == SelectSeq(s, LAMBDA c : c \in Digits)

\* the amount written with the digits ip before and fp after the decimal
\* separator
DecimalAmount(ip, fp) ==
    DigitsValue(ip) * Scale
        + DigitsValue(SubSeq(fp \o <<"0", "0", "0", "0">>, 1, 4))

\* the index of the rightmost separator of s
LastSeparator(s) ==
    CHOOSE i \in 1..Len(s) :
        /\ s[i] \in {".", ","}
        /\ \A j \in (i + 1)..Len(s) : s[j] \notin {".", ","}

\* s read with its rightmost separator as the decimal separator and the
\* other kind removed; a str in which the decimal kind occurs twice is no
\* number and reads as zero
RightmostIsDecimal(s) ==
    LET k      == LastSeparator(s)
        before == SubSeq(s, 1, k - 1)
        after  == SubSeq(s, k + 1, Len(s))
    IN  IF HasChar(before, s[k]) THEN 0
        ELSE DecimalAmount(OnlyDigits(before), OnlyDigits(after))

\* C17: of an amount that has both '.' and ',', both normalizers of the
\* pipeline take the rightmost separator as the decimal separator and remove
\* the other kind: "USD 7.157,16" gives 7157.16 and "USD 1,234.56" gives
\* 1234.56
C17_RightmostSeparatorIsDecimal ==
    /\ (HasChar(original_str, ".") /\ HasChar(original_str, ",")) =>
          /\ numeric_price # None =>
                numeric_price[1] = RightmostIsDecimal(original_str)
          /\ report_numeric_price # None =>
                report_numeric_price[1] = RightmostIsDecimal(original_str)
    /\ (original_str = <<"U", "S", "D", " ", "7", ".", "1", "5", "7", ",", "1", "6">> /\ numeric_price # None) =>
          numeric_price[1] = 7157 * Scale + 1600
    /\ (original_str = <<"U", "S", "D", " ", "1", ",", "2", "3", "4", ".", "5", "6">> /\ numeric_price # None) =>
          numeric_price[1] = 1234 * Scale + 5600

C17_Witness ==
    /\ original_str = <<"U", "S", "D", " ", "7", ".", "1", "5", "7", ",", "1", "6">>
    /\ numeric_price = <<7157 * Scale + 1600>>
    /\ report_numeric_price = <<7157 * Scale + 1600>>

\* s, whose only separator is c, read by the rule for one kind of
\* separator: c is the decimal separator when it occurs once and at most two
\* digits follow it, and every c is removed otherwise
SingleKindRule(s, c) ==
    LET k     == RFind(s, c)
        after == OnlyDigits(SubSeq(s, k + 1, Len(s)))
    IN  IF CountChar(s, c) = 1 /\ Len(after) <= 2
        THEN DecimalAmount(OnlyDigits(SubSeq(s, 1, k - 1)), after)
        ELSE DigitsValue(OnlyDigits(s)) * Scale

\* C18: of an amount that has only ',' or only '.', the normalizer of the
\* approval path takes the separator as the decimal separator iff it occurs
\* once and at most two digits follow it, and removes every occurrence
\* otherwise
C18_SingleSeparatorRule ==
    numeric_price # None =>
        /\ (HasChar(original_str, ",") /\ ~HasChar(original_str, ".")) =>
              numeric_price[1] = SingleKindRule(original_str, ",")
        /\ (HasChar(original_str, ".") /\ ~HasChar(original_str, ",")) =>
              numeric_price[1] = SingleKindRule(original_str, ".")

C18_Witness ==
    /\ original_str = <<"U", "S", "D", " ", "1", ",", "2", "3", "4">>
    /\ numeric_price = <<1 * Scale + 2340>>
    /\ report_numeric_price = <<1234 * Scale>>

\* original_str ends with '-'
TrailingDash == original_str # <<>> /\ original_str[Len(original_str)] = "-"

\* original_str without its last character
WithoutLast == SubSeq(original_str, 1, Len(original_str) - 1)

\* C19: an amount that ends with '-' normalizes to the negative of what it
\* normalizes to without the '-', in the normalizer of the approval path as
\* in OrderValidator.clean_number: "USD 10.00-" gives -10.00
C19_TrailingDashIsNegative ==
    TrailingDash =>
        /\ numeric_price # None =>
              numeric_price[1] = 0 - ExtractNumericPrice(WithoutLast)
        /\ decimal_number # None =>
              decimal_number[1] = 0 - CleanNumber(WithoutLast)

C19_Witness ==
    /\ original_str = <<"U", "S", "D", " ", "1", "0", ".", "0", "0", "-">>
    /\ numeric_price = <<10 * Scale>>
    /\ report_numeric_price = <<10 * Scale>>
    /\ decimal_number = <<0 - 10 * Scale>>

\* C20: both normalizers of the pipeline return a number for every str, and
\* zero for a str that is blank or has no digit, however its separators are
\* arranged
C20_NormalizerIsTotal ==
    /\ numeric_price # None =>
          /\ numeric_price[1] \in Nat
          /\ OnlyDigits(original_str) = <<>> => numeric_price[1] = 0
    /\ report_numeric_price # None =>
          /\ report_numeric_price[1] \in Nat
          /\ OnlyDigits(original_str) = <<>> => report_numeric_price[1] = 0

C20_Witness ==
    /\ original_str = <<"U", "S", "D", " ", ",", ".">>
    /\ numeric_price = <<0>>
    /\ report_numeric_price = <<0>>

-----------------------------------------------------------------------------
(* Specification of the item matcher on extracted items with empty fields:   *)
(* one Priority line and one extracted item of the same code                 *)

\* quantities and prices Priority may hold for a line, a free line included
EmptyFieldQuantities == {0, 1, 2}

EmptyFieldPrices ==
    {0, ApprovalTolerance - 1, ApprovalTolerance, Amount500, Amount1000}

EmptyFieldPriorityInputs ==
    {WithKlines(<<PriorityItem(PartA, q, p)>>) :
        q \in EmptyFieldQuantities, p \in EmptyFieldPrices}

\* item.get('quantity', '') and item.get('item_total', '') of an item that
\* lacks the field are the empty str
EmptyFieldAiInputs ==
    {<<AiItem(PartA, Widget, q, t, Date1)>> :
        q \in {<<>>, <<"E", "A">>, <<"1", " ", "E", "A">>, <<"2">>},
        t \in {<<>>, <<"U", "S", "D">>, <<"U", "S", "D", " ", "1", "0", ".", "0", "0">>, <<"5", ",", "0", "0">>}}

InitEmptyField ==
    /\ pc = "call"
    /\ priority_items \in EmptyFieldPriorityInputs
    /\ ai_items \in EmptyFieldAiInputs
    /\ ai_shipping_info = None
    /\ item_validation = None
    /\ shipping_validation = None
    /\ scan_calls = 0
    /\ extraction_validation = None
    /\ RunIdle
    /\ NormalizerIdle
    /\ NoOtherRuns

SpecEmptyField == InitEmptyField /\ [][ValidateItemsDetailCall]_vars

\* C21: an extracted item without a quantity is never reported as matching
\* the quantity of its Priority line, and one without an item_total never as
\* matching its price, whatever Priority holds for the line
C21_EmptyFieldNeverMatches ==
    pc = "return" =>
        /\ Len(item_validation.item_details) = 1
        /\ ai_items[1].quantity = <<>> =>
              ~item_validation.item_details[1].quantity_match
        /\ ai_items[1].item_total = <<>> =>
              ~item_validation.item_details[1].price_match

C21_Witness ==
    /\ pc = "return"
    /\ ai_items[1].quantity = <<>>
    /\ ai_items[1].item_total = <<>>
    /\ priority_items[1].TQUANT = 0
    /\ priority_items[1].VATPRICE = 0
    /\ item_validation.item_details[1].quantity_match
    /\ item_validation.item_details[1].price_match
    /\ item_validation.all_items_valid

-----------------------------------------------------------------------------
(* Specification of the writes of a run: post from STEP 3 on, for orders of  *)
(* one or two lines and documents of up to two items whose product codes and *)
(* delivery dates vary                                                       *)

WritePriorityPool ==
    {PriorityItem(PartA, 1, Amount1000), PriorityItem(PartB, 1, Amount1000),
     PriorityItem(PartSH1, 1, Amount500)}

WriteOrders ==
    {<<Order(<<a>>, SupplierOrderNumber)>> : a \in WritePriorityPool}
    \cup {<<Order(<<a, b>>, SupplierOrderNumber)>> :
             a \in WritePriorityPool, b \in WritePriorityPool}

\* items with and without a product code, with a date, without one and with
\* one that is no date
WriteAiPool ==
    {AiItem(code, Widget, <<"1", " ", "E", "A">>, <<"U", "S", "D", " ", "1", "0", ".", "0", "0">>, date) :
        code \in {PartA, PartX, PartSH1, <<>>},
        date \in {Date1, <<>>, <<"s", "o", "o", "n">>}}

WriteDocuments ==
    {[order_info |-> [delivery_address |-> Address,
                      total_price |-> <<"U", "S", "D", " ", "1", "0", ".", "0", "0">>,
                      shipping_cost |-> <<>>],
      items |-> items] :
        items \in {<<>>} \cup {<<a>> : a \in WriteAiPool}
                  \cup {<<a, b>> : a \in WriteAiPool, b \in WriteAiPool}}

InitWrites == AfterPriorityCheck(WriteOrders)

ProcessWriteDocument == ProcessDocumentOf(WriteDocuments)

NextWrites ==
    \/ ProcessWriteDocument
    \/ UpdateOrderItemsFetch
    \/ UpdateLineItem
    \/ UpdateFinalStatus
    \/ UpdateOrderNumber
    \/ Respond

SpecWrites == InitWrites /\ [][NextWrites]_vars

\* a request that writes the delivery date of a line
IsDateWrite(request) ==
    request.method = "PATCH" /\ request.resource = "PORDERITEMS_SUBFORM"

\* the date writes sent so far, in order
DateWrites == SelectSeq(requests, IsDateWrite)

\* the date loop of the run is over
DateLoopOver ==
    /\ item_validation # None
    /\ pc \in {"final_status", "order_number", "respond", "done"}

\* the lines of the order that are merchandise and carry the product code
MerchandiseLines(product_code) ==
    {i \in 1..Len(priority_order[1].PORDERITEMS_SUBFORM) :
        /\ priority_order[1].PORDERITEMS_SUBFORM[i].PARTNAME = product_code
        /\ ~HasShippingPrefix(product_code)}

\* the extracted items that have a product code and a delivery date and
\* whose code is that of a merchandise line of the order
ItemsToWrite ==
    SelectSeq(result_data[1].items, LAMBDA item :
        /\ item.product_code # <<>>
        /\ item.delivery_date # <<>>
        /\ MerchandiseLines(item.product_code) # {})

\* those of them whose delivery date the date conversion accepts
ItemsWithConvertibleDate ==
    SelectSeq(ItemsToWrite, LAMBDA item :
        ConvertDateFormat(CalculatePriorityDate(item.delivery_date,
            result_data[1].order_info.delivery_address))[1])

\* the date writes go, one each and in order, to lines that carry the codes
\* of items
WritesAreFor(items) ==
    /\ Len(DateWrites) <= Len(items)
    /\ DateLoopOver => Len(DateWrites) = Len(items)
    /\ \A w \in 1..Len(DateWrites) :
          \E i \in MerchandiseLines(items[w].product_code) :
              priority_order[1].PORDERITEMS_SUBFORM[i].KLINE = DateWrites[w].kline

\* C22 as stated: one date write for each extracted item that has a product
\* code and a delivery date and whose code is that of a merchandise line, to
\* the KLINE of such a line, and no other date write
C22_OneWritePerMatchedItem ==
    result_data # None => WritesAreFor(ItemsToWrite)

\* C22: one date write for each extracted item that has a product code and a
\* delivery date the date conversion accepts and whose code is that of a
\* merchandise line, to the KLINE of such a line, and no other date write:
\* none to a shipping line, none for a code the order does not have, none for
\* a date that cannot be converted
C22_OneWritePerConvertibleItem ==
    result_data # None => WritesAreFor(ItemsWithConvertibleDate)

\* a finished run on a shipping line and a merchandise line: the item that
\* carries the shipping code and the item without a date got no write, the
\* merchandise item got one to KLINE 2
C22_Witness ==
    /\ pc = "done"
    /\ Len(priority_order[1].PORDERITEMS_SUBFORM) = 2
    /\ priority_order[1].PORDERITEMS_SUBFORM[1].PARTNAME = PartSH1
    /\ priority_order[1].PORDERITEMS_SUBFORM[2].PARTNAME = PartA
    /\ Len(result_data[1].items) = 2
    /\ result_data[1].items[1].product_code = PartSH1
    /\ result_data[1].items[1].delivery_date = Date1
    /\ result_data[1].items[2].product_code = PartA
    /\ result_data[1].items[2].delivery_date = Date1
    /\ Len(DateWrites) = 1
    /\ DateWrites[1].kline = 2

-----------------------------------------------------------------------------
(* Claims about whole runs *)

\* the requests sent so far that write to Priority
Writes == {i \in 1..Len(requests) : requests[i].method = "PATCH"}

C26_OverallPassIffApproved ==
    \A i \in StatusWrites :
        price_validation[1].overall_validation_pass
            <=> requests[i].payload.STATDES = StatusApproved

\* a finished run whose report says that the validation passed and whose
\* status write, accepted by Priority, sent the order back: the document
\* repeats an item
C26_Witness ==
    /\ pc = "done"
    /\ StatusWrites # {}
    /\ price_validation[1].overall_validation_pass
    /\ \E i \in StatusWrites :
          requests[i].payload.STATDES = StatusSentToSupplier
    /\ priority_order[1].STATDES = StatusSentToSupplier
    /\ ~item_validation.item_count_match
    /\ Len(ai_items) = 2
    /\ ai_items[1].product_code = ai_items[2].product_code

\* "PO" followed by exactly ten digits
IsPoAndTenDigits(po) ==
    /\ Len(po) = 12
    /\ po[1] = "P" /\ po[2] = "O"
    /\ \A i \in 3..12 : po[i] \in Digits

\* the order was fetched before the first write
FetchedBeforeWrites ==
    \E g \in 1..Len(requests) :
        /\ requests[g].method = "GET"
        /\ \A i \in Writes : g < i

\* C27: a write of a delivery date, a status or an order number is sent only
\* in a run that extracted a customer PO of the form PO and ten digits and
\* found the order of that PO in Priority; a run that fails either check is
\* answered with an error and has sent no write
C27_NoWriteWithoutPoAndOrder ==
    /\ Writes # {} =>
          /\ IsPoAndTenDigits(customer_po)
          /\ priority_order # None
          /\ FetchedBeforeWrites
    /\ (pc = "done"
        /\ (~IsPoAndTenDigits(customer_po) \/ priority_order = None)) =>
          /\ response[1].code \in {400, 404}
          /\ Writes = {}

\* a run that extracted a PO of twelve characters that are not all digits:
\* it is answered 404 without any request
C27_Witness ==
    /\ pc = "done"
    /\ customer_po = <<"P", "O", "2", "4", "1", "0", "0", "0", "0", "2", "A", "B">>
    /\ priority_order # None
    /\ response[1].code = 404
    /\ requests = <<>>

\* the positions of the date writes among the requests sent so far
DateWritePositions == {j \in 1..Len(requests) : IsDateWrite(requests[j])}

\* the matched items whose pass through the date loop left a result
AttemptedItems ==
    {k \in 1..Len(update_results) :
        update_results[k].status
            \in {"success", "failed", "network_error", "date_error"}}

\* C28: the status write is sent only after the date loop gave every matched
\* item its pass, so it follows every date write of the run, and the status
\* it carries is decided by the validation results alone: it is the same
\* whether all, some or none of the date writes succeeded
C28_StatusAfterDatesFromValidation ==
    \A i \in StatusWrites :
        /\ Cardinality(AttemptedItems) = Len(matched_items)
        /\ \A j \in DateWritePositions : j < i
        /\ requests[i].payload.STATDES =
              IF /\ price_validation[1].price_match
                 /\ item_validation.all_items_valid
                 /\ item_validation.item_count_match
                 /\ item_validation.mismatches.missing_in_ai = <<>>
                 /\ shipping_validation.shipping_validation_passed
              THEN StatusApproved ELSE StatusSentToSupplier

\* a run with two date writes of which one succeeded: its status write
\* follows both
C28_Witness ==
    /\ pc = "done"
    /\ StatusWrites # {}
    /\ Cardinality(DateWritePositions) = 2
    /\ success_count = 1
    /\ \A i \in StatusWrites : \A j \in DateWritePositions : j < i

\* a run that approved the order although its only date write failed
C28_WitnessNoneSucceeded ==
    /\ pc = "done"
    /\ Cardinality(DateWritePositions) = 1
    /\ success_count = 0
    /\ \E i \in StatusWrites : requests[i].payload.STATDES = StatusApproved

\* the positions of the order-number writes among the requests sent so far
OrderNumberWrites ==
    {i \in 1..Len(requests) :
        /\ requests[i].method = "PATCH"
        /\ "SUPORDNUM" \in DOMAIN requests[i].payload}

\* the positions of the fetches among the requests sent so far: one by the
\* existence check, one by update_order_items, one by update_order_number
Fetches == {i \in 1..Len(requests) : requests[i].method = "GET"}

\* at least one date write of the run was accepted
SomeDateWriteSucceeded ==
    \E k \in 1..Len(update_results) : update_results[k].status = "success"

\* C29: the order-number update is attempted exactly in the runs whose
\* update_order_items reported success, which are the runs in which at least
\* one date write succeeded; its requests follow every date write and the
\* status write; in the other runs it is skipped and the response says so
C29_OrderNumberIffDateSuccess ==
    /\ \A i \in OrderNumberWrites :
          /\ SomeDateWriteSucceeded
          /\ \A j \in DateWritePositions \cup StatusWrites : j < i
    /\ order_number_update # None =>
          /\ SomeDateWriteSucceeded
          /\ \E g \in Fetches :
                \A j \in DateWritePositions \cup StatusWrites : j < g
    /\ (pc = "done" /\ response[1].code = 200) =>
          /\ response[1].priority_update.success <=> SomeDateWriteSucceeded
          /\ response[1].order_number_update.attempted
                <=> SomeDateWriteSucceeded
          /\ order_number_update # None <=> SomeDateWriteSucceeded
          /\ Cardinality(Fetches) = IF SomeDateWriteSucceeded THEN 3 ELSE 2
          /\ ~SomeDateWriteSucceeded =>
                /\ OrderNumberWrites = {}
                /\ response[1].order_number_update =
                      [attempted |-> FALSE, success |-> FALSE,
                       message |-> "Skipped due to failed date updates"]

\* a run in which one date write succeeded and another failed: the order
\* number was written after the status
C29_Witness ==
    /\ pc = "done"
    /\ OrderNumberWrites # {}
    /\ StatusWrites # {}
    /\ success_count = 1
    /\ Cardinality(DateWritePositions) = 2
    /\ response[1].order_number_update.attempted

\* a run whose date writes all failed: the order-number update was skipped
C29_WitnessSkipped ==
    /\ pc = "done"
    /\ DateWritePositions # {}
    /\ StatusWrites # {}
    /\ success_count = 0
    /\ OrderNumberWrites = {}
    /\ ~response[1].order_number_update.attempted

\* C30: the normalizer of the approval path and the normalizer of the report
\* return the same amount for every str, so no price is read as two
\* different amounts in one run
C30_NormalizersAgree ==
    (numeric_price # None /\ report_numeric_price # None) =>
        numeric_price = report_numeric_price

\* an amount with several commas: zero for the approval path, one hundred
\* thousand for the report
C30_Witness ==
    /\ original_str = <<"1", ",", "0", "0", ",", "0", "0", "0">>
    /\ numeric_price = <<0>>
    /\ report_numeric_price = <<100000 * Scale>>

-----------------------------------------------------------------------------
(* Several requests for one purchase order: each handles its own document    *)
(* with its own locals, all of them read and write the one order Priority    *)
(* holds. A request is followed from its call of update_order_items to the   *)
(* return of that call.                                                      *)

Date2 == <<"2", "0", ".", "0", "1", ".", "2", "0", "2", "5">>

\* the variables of a single request, which stay idle here
single_run_locals ==
    <<result_data, priority_data, price_validation, matched_items,
      update_results, success_count, order_number_update, response,
      priority_date_str>>

\* the locals of update_order_items in a request that handles doc
NewRun(doc, at) ==
    [pc |-> at, doc |-> doc,
     ai_shipping_info |->
         ExtractShippingFromOrderInfo(doc.order_info, ValidItems(doc.items))[2],
     price_validation |-> None, item_validation |-> None,
     shipping_validation |-> None, matched_items |-> <<>>,
     update_results |-> <<>>, success_count |-> 0,
     final_status_update |-> None, writes |-> <<>>, order_after |-> None]

\* the order as Priority holds it when the request returns
Returned(run) == [run EXCEPT !.pc = "done", !.order_after = priority_order]

\* update_order_items of request r up to matched_items
RunFetch(r) ==
    /\ runs[r].pc = "fetch"
    /\ \E outcome \in GetOutcomes :
          LET run == runs[r]
              doc == run.doc
              res == GetOrderData(customer_po,
                                  <<ExtractedTotalPrice(doc.order_info)>>,
                                  outcome, priority_order)
              order_items == res.data.PORDERITEMS_SUBFORM
              original_order_items == res.data.original_items
              iv == ValidateItemsDetail(order_items, doc.items)
              sv == ValidateShippingCharges(original_order_items, doc.items,
                                            run.ai_shipping_info)
              pv == res.price_validation
              matched == MatchedItems(ValidItems(doc.items), order_items)
          IN  runs' = [runs EXCEPT ![r] =
                 IF ~res.success
                 THEN Returned(run)
                 ELSE IF NoOrderItems(order_items)
                 THEN Returned([run EXCEPT !.price_validation = <<pv>>])
                 ELSE [run EXCEPT
                         !.item_validation = iv,
                         !.shipping_validation = sv,
                         !.price_validation =
                            <<IF pv.validation_attempted
                              THEN pv @@ [overall_validation_pass |->
                                       OverallValidationPass(pv.price_match,
                                           iv.all_items_valid,
                                           sv.shipping_validation_passed)]
                              ELSE pv>>,
                         !.matched_items = matched,
                         !.pc = IF matched = <<>> THEN "final_status"
                                ELSE "update_line"]]
    /\ requests' = requests \o GetOrderDataRequests(customer_po)
    /\ UNCHANGED <<pc, validator_vars, normalizer_vars, customer_po,
                   priority_order, single_run_locals>>

\* one pass of "for item in matched_items" in request r
RunUpdateLineItem(r) ==
    /\ runs[r].pc = "update_line"
    /\ LET run == runs[r]
           item == run.matched_items[Len(run.update_results) + 1]
           calculated ==
               CalculatePriorityDate(item.delivery_date,
                                     DeliveryAddress(run.doc.order_info))
           converted == ConvertDateFormat(calculated)
           patch == PatchRequest("PORDERITEMS_SUBFORM", item.kline_id,
                                 [REQDATE |-> converted[2]])
           result(status) ==
               [product_code |-> item.product_code, kline_id |-> item.kline_id,
                status |-> status]
           after(status, writes, count) ==
               [run EXCEPT
                   !.update_results = Append(@, result(status)),
                   !.writes = writes,
                   !.success_count = count,
                   !.pc = AfterLineItem(Len(run.update_results) + 1,
                                        Len(run.matched_items))]
       IN  IF ~converted[1]
           THEN /\ runs' = [runs EXCEPT ![r] =
                               after("date_error", run.writes,
                                     run.success_count)]
                /\ UNCHANGED <<requests, priority_order>>
           ELSE /\ requests' = Append(requests, patch)
                /\ \E outcome \in PatchOutcomes :
                      \/ /\ outcome = "ok"
                         /\ runs' = [runs EXCEPT ![r] =
                               after("success", Append(run.writes, patch),
                                     run.success_count + 1)]
                         /\ priority_order' =
                               WithReqdate(priority_order, item.kline_id,
                                           converted[2])
                      \/ /\ outcome = "rejected"
                         /\ runs' = [runs EXCEPT ![r] =
                               after("failed", Append(run.writes, patch),
                                     run.success_count)]
                         /\ priority_order' = priority_order
                      \/ /\ outcome = "error"
                         /\ runs' = [runs EXCEPT ![r] =
                               after("network_error",
                                     Append(run.writes, patch),
                                     run.success_count)]
                         /\ priority_order' = priority_order
    /\ UNCHANGED <<pc, validator_vars, normalizer_vars, customer_po,
                   single_run_locals>>

\* the end of update_order_items in request r: update_final_status and the
\* return
RunUpdateFinalStatus(r) ==
    /\ runs[r].pc = "final_status"
    /\ LET run == runs[r]
           pv == run.price_validation[1]
           final == FinalStatus(pv, run.item_validation,
                                run.shipping_validation)
           patch == PatchRequest("PORDERS", 0, [STATDES |-> final.new_status])
           results == WithUnmatched(run.update_results,
                                    ValidItems(run.doc.items))
       IN  IF ~pv.validation_attempted
           THEN /\ runs' = [runs EXCEPT ![r] =
                       [Returned(run) EXCEPT !.update_results = results]]
                /\ UNCHANGED <<requests, priority_order>>
           ELSE /\ requests' = Append(requests, patch)
                /\ \E outcome \in PatchOutcomes :
                      /\ priority_order' =
                            IF outcome = "ok"
                            THEN WithStatdes(priority_order, final.new_status)
                            ELSE priority_order
                      /\ runs' = [runs EXCEPT ![r] =
                            [run EXCEPT
                               !.pc = "done",
                               !.update_results = results,
                               !.writes = Append(@, patch),
                               !.final_status_update =
                                  <<[attempted |-> TRUE,
                                     success |-> outcome = "ok"]>>,
                               !.order_after = priority_order']]
    /\ UNCHANGED <<pc, validator_vars, normalizer_vars, customer_po,
                   single_run_locals>>

\* the same document is posted again after the first request was answered
PostAgain(r) ==
    /\ runs[r].pc = "waiting"
    /\ runs[r - 1].pc = "done"
    /\ runs' = [runs EXCEPT ![r].pc = "fetch"]
    /\ UNCHANGED <<pc, validator_vars, normalizer_vars, customer_po,
                   priority_order, requests, single_run_locals>>

\* the orders of these requests: one line, and two lines
RequestOrders ==
    {<<Order(<<PriorityItem(PartA, 1, Amount1000)>>, SupplierOrderNumber)>>,
     <<Order(<<PriorityItem(PartA, 1, Amount500),
               PriorityItem(PartB, 1, Amount500)>>, SupplierOrderNumber)>>}

\* a document with the given items and a total of 10.00
RequestDocument(items) ==
    [order_info |-> [delivery_address |-> Address,
                     total_price |-> <<"U", "S", "D", " ", "1", "0", ".", "0", "0">>,
                     shipping_cost |-> <<>>],
     items |-> items]

\* the requests start with the order found and the documents extracted
InitRequests(documents, second_at) ==
    /\ pc = "requests"
    /\ priority_items = <<>>
    /\ ai_items = <<>>
    /\ ai_shipping_info = None
    /\ item_validation = None
    /\ shipping_validation = None
    /\ scan_calls = 0
    /\ extraction_validation = None
    /\ customer_po = ValidPo
    /\ priority_order \in RequestOrders
    /\ requests = <<>>
    /\ result_data = None
    /\ priority_data = None
    /\ price_validation = None
    /\ matched_items = <<>>
    /\ update_results = <<>>
    /\ success_count = 0
    /\ order_number_update = None
    /\ response = None
    /\ priority_date_str = None
    /\ NormalizerIdle
    /\ runs \in {<<NewRun(d[1], "fetch"), NewRun(d[2], second_at)>> :
                    d \in documents}

-----------------------------------------------------------------------------
(* Specification of a document that is posted twice, the second time after   *)
(* the first request was answered                                            *)

RepeatedAiPool ==
    {AiItem(code, Widget, <<"1", " ", "E", "A">>, total, date) :
        code \in {PartA, PartB},
        total \in {<<"U", "S", "D", " ", "1", "0", ".", "0", "0">>, <<"U", "S", "D", " ", "5", ".", "0", "0">>},
        date \in {Date1, <<"s", "o", "o", "n">>}}

RepeatedDocuments ==
    {RequestDocument(<<a>>) : a \in RepeatedAiPool}
    \cup {RequestDocument(<<a, b>>) :
            a \in {x \in RepeatedAiPool : x.product_code = PartA},
            b \in {x \in RepeatedAiPool : x.product_code = PartB}}

InitRepeated ==
    InitRequests({<<d, d>> : d \in RepeatedDocuments}, "waiting")

NextRepeated ==
    \E r \in {1, 2} :
        \/ RunFetch(r)
        \/ RunUpdateLineItem(r)
        \/ RunUpdateFinalStatus(r)
        \/ PostAgain(r)

SpecRepeated == InitRepeated /\ [][NextRepeated]_vars

\* both requests returned, and both had fetched the order
BothValidated ==
    /\ Len(runs) = 2
    /\ \A r \in {1, 2} :
          runs[r].pc = "done" /\ runs[r].price_validation # None

\* the validation report of a request
ValidationReport(run) ==
    [price_validation |-> run.price_validation,
     item_validation |-> run.item_validation,
     shipping_validation |-> run.shipping_validation]

\* Priority answered the writes of both requests alike
AnsweredAlike ==
    /\ runs[1].update_results = runs[2].update_results
    /\ runs[1].final_status_update = runs[2].final_status_update

\* C23: when the same document is reconciled again with the same order, the
\* second run gives the validation report of the first and sends the same
\* writes, date for date and status for status, and the order is afterwards
\* as the first run left it whenever Priority answered the writes of both
\* runs alike
C23_RerunIsIdempotent ==
    BothValidated =>
        /\ ValidationReport(runs[2]) = ValidationReport(runs[1])
        /\ runs[2].matched_items = runs[1].matched_items
        /\ runs[2].writes = runs[1].writes
        /\ AnsweredAlike => priority_order = runs[1].order_after

\* two runs of a document with two items that each wrote two dates and the
\* approval: the order is as the first run left it, and not as it was
C23_Witness ==
    /\ BothValidated
    /\ Len(runs[1].writes) = 3
    /\ runs[1].success_count = 2
    /\ runs[2].success_count = 2
    /\ runs[1].writes[3].payload.STATDES = StatusApproved
    /\ runs[2].writes = runs[1].writes
    /\ priority_order = runs[1].order_after
    /\ priority_order[1].STATDES = StatusApproved

-----------------------------------------------------------------------------
(* Specification of two requests for one purchase order whose documents      *)
(* differ and that are handled at the same time                              *)

ConcurrentDocuments ==
    {RequestDocument(<<AiItem(PartA, Widget, <<"1", " ", "E", "A">>, <<"U", "S", "D", " ", "1", "0", ".", "0", "0">>, Date1)>>),
     RequestDocument(<<AiItem(PartA, Widget, <<"1", " ", "E", "A">>, <<"U", "S", "D", " ", "5", ".", "0", "0">>, Date2)>>),
     RequestDocument(<<AiItem(PartA, Widget, <<"2", " ", "E", "A">>, <<"U", "S", "D", " ", "1", "0", ".", "0", "0">>, Date2)>>)}

InitConcurrent ==
    /\ InitRequests({d \in ConcurrentDocuments \X ConcurrentDocuments :
                        d[1] # d[2]}, "fetch")
    /\ Len(priority_order[1].PORDERITEMS_SUBFORM) = 1

NextConcurrent ==
    \E r \in {1, 2} :
        \/ RunFetch(r)
        \/ RunUpdateLineItem(r)
        \/ RunUpdateFinalStatus(r)

SpecConcurrent == InitConcurrent /\ [][NextConcurrent]_vars

\* both requests returned and Priority accepted every write of both
BothWroteAll ==
    /\ Len(runs) = 2
    /\ \A r \in {1, 2} :
          /\ runs[r].pc = "done"
          /\ runs[r].matched_items # <<>>
          /\ runs[r].success_count = Len(runs[r].matched_items)
          /\ runs[r].final_status_update # None
          /\ runs[r].final_status_update[1].success

\* the order holds what the write w wrote
Holds(w) ==
    IF "STATDES" \in DOMAIN w.payload
    THEN priority_order[1].STATDES = w.payload.STATDES
    ELSE \A k \in 1..Len(priority_order[1].PORDERITEMS_SUBFORM) :
            priority_order[1].PORDERITEMS_SUBFORM[k].KLINE = w.kline =>
                priority_order[1].PORDERITEMS_SUBFORM[k].REQDATE
                    = w.payload.REQDATE

\* C25: when two requests with different documents for the same order are
\* handled at the same time and all their writes are accepted, the order
\* ends as one of the two runs alone would leave it: the status and every
\* date it holds were written by the same run
C25_ConcurrentRunsSerialize ==
    BothWroteAll =>
        \E r \in {1, 2} :
            \A k \in 1..Len(runs[r].writes) : Holds(runs[r].writes[k])

\* the order holds the approval of the first request and the date of the
\* second, which did not approve
C25_Witness ==
    /\ BothWroteAll
    /\ runs[1].writes[2].payload.STATDES = StatusApproved
    /\ runs[2].writes[2].payload.STATDES = StatusSentToSupplier
    /\ runs[1].writes[1].payload.REQDATE # runs[2].writes[1].payload.REQDATE
    /\ priority_order[1].STATDES = StatusApproved
    /\ priority_order[1].PORDERITEMS_SUBFORM[1].REQDATE
          = runs[2].writes[1].payload.REQDATE

=============================================================================
